---------------------------- MODULE Spec2Model ----------------------------
(****************************************************************************)
(* Capability registry (UnifiedAdapterRegistry) and dynamic discovery and   *)
(* synthesis of adapters (DynamicAdapterDiscovery).                         *)
(*                                                                          *)
(* A Python str value is named by a string of Strings and Chars gives its   *)
(* characters; a str the program builds is the sequence of its characters.  *)
(* A character is the one-character string for ASCII and "Uxxxx" for a      *)
(* character outside ASCII.                                                 *)
(* A score is an integer number of 1/600: the weights 0.3, 0.2, 0.4 and 0.1 *)
(* are 3, 2, 4 and 1 tenths of a similarity counted in 1/60, which is exact *)
(* for every ratio with a denominator up to 6. The requirements of the      *)
(* model have ratios with denominators 1 and 2, for which the float sums of *)
(* the program compare with 0.5 and 0.8 as the exact sums do.               *)
(****************************************************************************)
EXTENDS Integers, Sequences, FiniteSets, TLC

(***************************************************************************)
(* str                                                                     *)
(***************************************************************************)
UpperLetters ==
    << "A", "B", "C", "D", "E", "F", "G", "H", "I", "J", "K", "L", "M",
       "N", "O", "P", "Q", "R", "S", "T", "U", "V", "W", "X", "Y", "Z" >>

LowerLetters ==
    << "a", "b", "c", "d", "e", "f", "g", "h", "i", "j", "k", "l", "m",
       "n", "o", "p", "q", "r", "s", "t", "u", "v", "w", "x", "y", "z" >>

Digits == << "0", "1", "2", "3", "4", "5", "6", "7", "8", "9" >>

\* The ASCII characters of the model in code point order.
Alphabet == << " ", "\"", "-", "." >> \o Digits \o UpperLetters \o << "_" >> \o LowerLetters

RangeOf(s) == { s[i] : i \in 1..Len(s) }

\* ord(ch) up to an increasing map, for the characters of Alphabet
OrdOf == [ ch \in RangeOf(Alphabet) |-> CHOOSE i \in 1..Len(Alphabet) : Alphabet[i] = ch ]

\* The code point order of two characters; a character outside ASCII sorts last.
CharOrd(ch) == IF ch \in DOMAIN OrdOf THEN OrdOf[ch] ELSE Len(Alphabet) + 1

LowerOf == [ ch \in RangeOf(UpperLetters) |->
               LowerLetters[CHOOSE i \in 1..26 : UpperLetters[i] = ch] ]

UpperOf == [ ch \in RangeOf(LowerLetters) |->
               UpperLetters[CHOOSE i \in 1..26 : LowerLetters[i] = ch] ]

\* str.lower() of one character
LowerChar(ch) == IF ch \in DOMAIN LowerOf THEN LowerOf[ch] ELSE ch

\* str.upper() of one character
UpperChar(ch) == IF ch \in DOMAIN UpperOf THEN UpperOf[ch] ELSE ch

\* str.lower()
Lower(s) == [i \in 1..Len(s) |-> LowerChar(s[i])]

\* str.capitalize(): the first character upper case, the rest lower case
Capitalize(s) == [i \in 1..Len(s) |-> IF i = 1 THEN UpperChar(s[i]) ELSE LowerChar(s[i])]

\* str.replace(old, new) for one-character old and new
Replace(s, old, new) == [i \in 1..Len(s) |-> IF s[i] = old THEN new ELSE s[i]]

\* Python `s in t`: s is a contiguous part of t (the empty str is in every str)
IsSubstr(s, t) == \E i \in 0..(Len(t) - Len(s)) : SubSeq(t, i + 1, i + Len(s)) = s

\* str.endswith
EndsWith(s, suffix) ==
    /\ Len(suffix) <= Len(s)
    /\ SubSeq(s, Len(s) - Len(suffix) + 1, Len(s)) = suffix

\* str.startswith
StartsWith(s, prefix) ==
    /\ Len(prefix) <= Len(s)
    /\ SubSeq(s, 1, Len(prefix)) = prefix

RECURSIVE SplitFrom(_, _, _)
SplitFrom(s, i, cur) ==
    IF i > Len(s)
    THEN (IF cur = << >> THEN << >> ELSE << cur >>)
    ELSE IF s[i] = " "
         THEN (IF cur = << >> THEN << >> ELSE << cur >>) \o SplitFrom(s, i + 1, << >>)
         ELSE SplitFrom(s, i + 1, Append(cur, s[i]))

\* str.split(): the words between runs of white space
Split(s) == SplitFrom(s, 1, << >>)

RECURSIVE Join(_)
\* ''.join(words)
Join(words) == IF words = << >> THEN << >> ELSE Head(words) \o Join(Tail(words))

RECURSIVE StrLess(_, _)
\* Python s < t on str: lexicographic by code point
StrLess(s, t) ==
    IF t = << >> THEN FALSE
    ELSE IF s = << >> THEN TRUE
    ELSE IF CharOrd(Head(s)) # CharOrd(Head(t)) THEN CharOrd(Head(s)) < CharOrd(Head(t))
    ELSE StrLess(Tail(s), Tail(t))

\* Strings are names; Chars gives list(s), the characters of each
\* the strings of the model
Strings ==
    { "core", "U6838U5FC3U7D44U4EF6", "ai_enhanced", "AIU589EU5F37U529FU80FD",
      "unified_config_manager", "U7D71U4E00U914DU7F6EU7BA1U7406", "unified_smart_tool_engine",
      "U7D71U4E00U667AU80FDU5DE5U5177U5F15U64CE", "optimization", "U512AU5316U76F8U95DC",
      "workflow", "U5DE5U4F5CU6D41U5F15U64CE", "development_tools", "U958BU767CU5DE5U5177",
      "integration", "U591AU9069U914DU5668U6574U5408", "claude_adapter",
      "ClaudeU9069U914DU5668", "gemini_adapter", "GeminiU9069U914DU5668", "kilocode_adapter",
      "KilocodeU9069U914DU5668", "infinite_context_adapter",
      "U7121U9650U4E0AU4E0BU6587U9069U914DU5668", "enhanced_aci_dev_adapter",
      "U589EU5F37ACI.devU9069U914DU5668", "zapier_adapter", "ZapierU9069U914DU5668", "rl_srt",
      "U5F37U5316U5B78U7FD2SRT", "srt", "SRTU9069U914DU5668", "real_ai_adapter",
      "U771FU5BE6AIU9069U914DU5668", "fixed_mcp_so_adapter", "U56FAU5B9AMCP.soU9069U914DU5668",
      "U672AU77E5", "U7121U63CFU8FF0", "CsvMCP", "parse csv", "csv", "csv_mcp", "notes_mcp",
      "csvmcp", "general", "CSV Analyzer", "csv analyzer", "analyze", "csv_parsing",
      "statistics", "nocaps", "csv-x", "plot", "chart", "aiU589EU5F37U529FU80FD",
      "claudeU9069U914DU5668", "geminiU9069U914DU5668", "kilocodeU9069U914DU5668",
      "U589EU5F37aci.devU9069U914DU5668", "zapierU9069U914DU5668", "U5F37U5316U5B78U7FD2srt",
      "srtU9069U914DU5668", "U771FU5BE6aiU9069U914DU5668", "U56FAU5B9Amcp.soU9069U914DU5668",
      "TableMCP", "tablemcp", "table_mcp", "broken_mcp", "PlainMCP", "plainmcp",
      "plain_mcp", "StrictMCP", "strictmcp", "strict_mcp", "Util", "util",
      "util_mcp", "ai", "notes", "Data Analyzer", "data analyzer", "chart_generation",
      "csv_analyzer_adapter", "plot_adapter", "CsvAnalyzerMCP", "csvanalyzermcp", "PlotMCP", "plotmcp", "BaseMCP", "basemcp", "U81EAU52D5U751FU6210U7684CSV AnalyzerU9069U914DU5668", "U81EAU52D5U751FU6210U7684csv analyzerU9069U914DU5668", "U9AD8U7D1AU81EAU52D5U751FU6210U7684CSV AnalyzerU9069U914DU5668", "U9AD8U7D1AU81EAU52D5U751FU6210U7684csv analyzerU9069U914DU5668", "U81EAU52D5U751FU6210U7684plotU9069U914DU5668", "U9AD8U7D1AU81EAU52D5U751FU6210U7684plotU9069U914DU5668", "U57FAU790EMCPU9069U914DU529FU80FD", "U57FAU790EmcpU9069U914DU529FU80FD", "generated",
      "csvmcp_adapter", "CsvmcpMCP", "csvmcpmcp", "U81EAU52D5U751FU6210U7684csvmcpU9069U914DU5668",
      "thought_action_recorder", "supermemory", "U601DU8003U64CDU4F5CU8A18U9304U5668", "SuperMemoryU9069U914DU5668", "supermemoryU9069U914DU5668" }

\* the characters of a string
Chars(s) ==
    CASE s = "core" -> <<"c", "o", "r", "e">>
      [] s = "U6838U5FC3U7D44U4EF6" -> <<"U6838", "U5FC3", "U7D44", "U4EF6">>
      [] s = "ai_enhanced" -> <<"a", "i", "_", "e", "n", "h", "a", "n", "c", "e", "d">>
      [] s = "AIU589EU5F37U529FU80FD" -> <<"A", "I", "U589E", "U5F37", "U529F", "U80FD">>
      [] s = "unified_config_manager" -> <<"u", "n", "i", "f", "i", "e", "d", "_", "c", "o", "n", "f", "i", "g", "_", "m", "a", "n", "a", "g", "e", "r">>
      [] s = "U7D71U4E00U914DU7F6EU7BA1U7406" -> <<"U7D71", "U4E00", "U914D", "U7F6E", "U7BA1", "U7406">>
      [] s = "unified_smart_tool_engine" -> <<"u", "n", "i", "f", "i", "e", "d", "_", "s", "m", "a", "r", "t", "_", "t", "o", "o", "l", "_", "e", "n", "g", "i", "n", "e">>
      [] s = "U7D71U4E00U667AU80FDU5DE5U5177U5F15U64CE" -> <<"U7D71", "U4E00", "U667A", "U80FD", "U5DE5", "U5177", "U5F15", "U64CE">>
      [] s = "optimization" -> <<"o", "p", "t", "i", "m", "i", "z", "a", "t", "i", "o", "n">>
      [] s = "U512AU5316U76F8U95DC" -> <<"U512A", "U5316", "U76F8", "U95DC">>
      [] s = "workflow" -> <<"w", "o", "r", "k", "f", "l", "o", "w">>
      [] s = "U5DE5U4F5CU6D41U5F15U64CE" -> <<"U5DE5", "U4F5C", "U6D41", "U5F15", "U64CE">>
      [] s = "development_tools" -> <<"d", "e", "v", "e", "l", "o", "p", "m", "e", "n", "t", "_", "t", "o", "o", "l", "s">>
      [] s = "U958BU767CU5DE5U5177" -> <<"U958B", "U767C", "U5DE5", "U5177">>
      [] s = "integration" -> <<"i", "n", "t", "e", "g", "r", "a", "t", "i", "o", "n">>
      [] s = "U591AU9069U914DU5668U6574U5408" -> <<"U591A", "U9069", "U914D", "U5668", "U6574", "U5408">>
      [] s = "claude_adapter" -> <<"c", "l", "a", "u", "d", "e", "_", "a", "d", "a", "p", "t", "e", "r">>
      [] s = "ClaudeU9069U914DU5668" -> <<"C", "l", "a", "u", "d", "e", "U9069", "U914D", "U5668">>
      [] s = "gemini_adapter" -> <<"g", "e", "m", "i", "n", "i", "_", "a", "d", "a", "p", "t", "e", "r">>
      [] s = "GeminiU9069U914DU5668" -> <<"G", "e", "m", "i", "n", "i", "U9069", "U914D", "U5668">>
      [] s = "kilocode_adapter" -> <<"k", "i", "l", "o", "c", "o", "d", "e", "_", "a", "d", "a", "p", "t", "e", "r">>
      [] s = "KilocodeU9069U914DU5668" -> <<"K", "i", "l", "o", "c", "o", "d", "e", "U9069", "U914D", "U5668">>
      [] s = "infinite_context_adapter" -> <<"i", "n", "f", "i", "n", "i", "t", "e", "_", "c", "o", "n", "t", "e", "x", "t", "_", "a", "d", "a", "p", "t", "e", "r">>
      [] s = "U7121U9650U4E0AU4E0BU6587U9069U914DU5668" -> <<"U7121", "U9650", "U4E0A", "U4E0B", "U6587", "U9069", "U914D", "U5668">>
      [] s = "enhanced_aci_dev_adapter" -> <<"e", "n", "h", "a", "n", "c", "e", "d", "_", "a", "c", "i", "_", "d", "e", "v", "_", "a", "d", "a", "p", "t", "e", "r">>
      [] s = "U589EU5F37ACI.devU9069U914DU5668" -> <<"U589E", "U5F37", "A", "C", "I", ".", "d", "e", "v", "U9069", "U914D", "U5668">>
      [] s = "zapier_adapter" -> <<"z", "a", "p", "i", "e", "r", "_", "a", "d", "a", "p", "t", "e", "r">>
      [] s = "ZapierU9069U914DU5668" -> <<"Z", "a", "p", "i", "e", "r", "U9069", "U914D", "U5668">>
      [] s = "rl_srt" -> <<"r", "l", "_", "s", "r", "t">>
      [] s = "U5F37U5316U5B78U7FD2SRT" -> <<"U5F37", "U5316", "U5B78", "U7FD2", "S", "R", "T">>
      [] s = "srt" -> <<"s", "r", "t">>
      [] s = "SRTU9069U914DU5668" -> <<"S", "R", "T", "U9069", "U914D", "U5668">>
      [] s = "real_ai_adapter" -> <<"r", "e", "a", "l", "_", "a", "i", "_", "a", "d", "a", "p", "t", "e", "r">>
      [] s = "U771FU5BE6AIU9069U914DU5668" -> <<"U771F", "U5BE6", "A", "I", "U9069", "U914D", "U5668">>
      [] s = "fixed_mcp_so_adapter" -> <<"f", "i", "x", "e", "d", "_", "m", "c", "p", "_", "s", "o", "_", "a", "d", "a", "p", "t", "e", "r">>
      [] s = "U56FAU5B9AMCP.soU9069U914DU5668" -> <<"U56FA", "U5B9A", "M", "C", "P", ".", "s", "o", "U9069", "U914D", "U5668">>
      [] s = "U672AU77E5" -> <<"U672A", "U77E5">>
      [] s = "U7121U63CFU8FF0" -> <<"U7121", "U63CF", "U8FF0">>
      [] s = "CsvMCP" -> <<"C", "s", "v", "M", "C", "P">>
      [] s = "parse csv" -> <<"p", "a", "r", "s", "e", " ", "c", "s", "v">>
      [] s = "csv" -> <<"c", "s", "v">>
      [] s = "csv_mcp" -> <<"c", "s", "v", "_", "m", "c", "p">>
      [] s = "notes_mcp" -> <<"n", "o", "t", "e", "s", "_", "m", "c", "p">>
      [] s = "csvmcp" -> <<"c", "s", "v", "m", "c", "p">>
      [] s = "general" -> <<"g", "e", "n", "e", "r", "a", "l">>
      [] s = "CSV Analyzer" -> <<"C", "S", "V", " ", "A", "n", "a", "l", "y", "z", "e", "r">>
      [] s = "csv analyzer" -> <<"c", "s", "v", " ", "a", "n", "a", "l", "y", "z", "e", "r">>
      [] s = "analyze" -> <<"a", "n", "a", "l", "y", "z", "e">>
      [] s = "csv_parsing" -> <<"c", "s", "v", "_", "p", "a", "r", "s", "i", "n", "g">>
      [] s = "statistics" -> <<"s", "t", "a", "t", "i", "s", "t", "i", "c", "s">>
      [] s = "nocaps" -> <<"n", "o", "c", "a", "p", "s">>
      [] s = "csv-x" -> <<"c", "s", "v", "-", "x">>
      [] s = "plot" -> <<"p", "l", "o", "t">>
      [] s = "chart" -> <<"c", "h", "a", "r", "t">>
      [] s = "aiU589EU5F37U529FU80FD" -> <<"a", "i", "U589E", "U5F37", "U529F", "U80FD">>
      [] s = "claudeU9069U914DU5668" -> <<"c", "l", "a", "u", "d", "e", "U9069", "U914D", "U5668">>
      [] s = "geminiU9069U914DU5668" -> <<"g", "e", "m", "i", "n", "i", "U9069", "U914D", "U5668">>
      [] s = "kilocodeU9069U914DU5668" -> <<"k", "i", "l", "o", "c", "o", "d", "e", "U9069", "U914D", "U5668">>
      [] s = "U589EU5F37aci.devU9069U914DU5668" -> <<"U589E", "U5F37", "a", "c", "i", ".", "d", "e", "v", "U9069", "U914D", "U5668">>
      [] s = "zapierU9069U914DU5668" -> <<"z", "a", "p", "i", "e", "r", "U9069", "U914D", "U5668">>
      [] s = "U5F37U5316U5B78U7FD2srt" -> <<"U5F37", "U5316", "U5B78", "U7FD2", "s", "r", "t">>
      [] s = "srtU9069U914DU5668" -> <<"s", "r", "t", "U9069", "U914D", "U5668">>
      [] s = "U771FU5BE6aiU9069U914DU5668" -> <<"U771F", "U5BE6", "a", "i", "U9069", "U914D", "U5668">>
      [] s = "U56FAU5B9Amcp.soU9069U914DU5668" -> <<"U56FA", "U5B9A", "m", "c", "p", ".", "s", "o", "U9069", "U914D", "U5668">>
      [] s = "TableMCP" -> <<"T", "a", "b", "l", "e", "M", "C", "P">>
      [] s = "tablemcp" -> <<"t", "a", "b", "l", "e", "m", "c", "p">>
      [] s = "table_mcp" -> <<"t", "a", "b", "l", "e", "_", "m", "c", "p">>
      [] s = "broken_mcp" -> <<"b", "r", "o", "k", "e", "n", "_", "m", "c", "p">>
      [] s = "PlainMCP" -> <<"P", "l", "a", "i", "n", "M", "C", "P">>
      [] s = "plainmcp" -> <<"p", "l", "a", "i", "n", "m", "c", "p">>
      [] s = "plain_mcp" -> <<"p", "l", "a", "i", "n", "_", "m", "c", "p">>
      [] s = "StrictMCP" -> <<"S", "t", "r", "i", "c", "t", "M", "C", "P">>
      [] s = "strictmcp" -> <<"s", "t", "r", "i", "c", "t", "m", "c", "p">>
      [] s = "strict_mcp" -> <<"s", "t", "r", "i", "c", "t", "_", "m", "c", "p">>
      [] s = "Util" -> <<"U", "t", "i", "l">>
      [] s = "util" -> <<"u", "t", "i", "l">>
      [] s = "util_mcp" -> <<"u", "t", "i", "l", "_", "m", "c", "p">>
      [] s = "ai" -> <<"a", "i">>
      [] s = "notes" -> <<"n", "o", "t", "e", "s">>
      [] s = "Data Analyzer" -> <<"D", "a", "t", "a", " ", "A", "n", "a", "l", "y", "z", "e", "r">>
      [] s = "data analyzer" -> <<"d", "a", "t", "a", " ", "a", "n", "a", "l", "y", "z", "e", "r">>
      [] s = "chart_generation" -> <<"c", "h", "a", "r", "t", "_", "g", "e", "n", "e", "r", "a", "t", "i", "o", "n">>
      [] s = "csv_analyzer_adapter" -> <<"c", "s", "v", "_", "a", "n", "a", "l", "y", "z", "e", "r", "_", "a", "d", "a", "p", "t", "e", "r">>
      [] s = "plot_adapter" -> <<"p", "l", "o", "t", "_", "a", "d", "a", "p", "t", "e", "r">>
      [] s = "CsvAnalyzerMCP" -> <<"C", "s", "v", "A", "n", "a", "l", "y", "z", "e", "r", "M", "C", "P">>
      [] s = "csvanalyzermcp" -> <<"c", "s", "v", "a", "n", "a", "l", "y", "z", "e", "r", "m", "c", "p">>
      [] s = "PlotMCP" -> <<"P", "l", "o", "t", "M", "C", "P">>
      [] s = "plotmcp" -> <<"p", "l", "o", "t", "m", "c", "p">>
      [] s = "BaseMCP" -> <<"B", "a", "s", "e", "M", "C", "P">>
      [] s = "basemcp" -> <<"b", "a", "s", "e", "m", "c", "p">>
      [] s = "U81EAU52D5U751FU6210U7684CSV AnalyzerU9069U914DU5668" -> <<"U81EA", "U52D5", "U751F", "U6210", "U7684", "C", "S", "V", " ", "A", "n", "a", "l", "y", "z", "e", "r", "U9069", "U914D", "U5668">>
      [] s = "U81EAU52D5U751FU6210U7684csv analyzerU9069U914DU5668" -> <<"U81EA", "U52D5", "U751F", "U6210", "U7684", "c", "s", "v", " ", "a", "n", "a", "l", "y", "z", "e", "r", "U9069", "U914D", "U5668">>
      [] s = "U9AD8U7D1AU81EAU52D5U751FU6210U7684CSV AnalyzerU9069U914DU5668" -> <<"U9AD8", "U7D1A", "U81EA", "U52D5", "U751F", "U6210", "U7684", "C", "S", "V", " ", "A", "n", "a", "l", "y", "z", "e", "r", "U9069", "U914D", "U5668">>
      [] s = "U9AD8U7D1AU81EAU52D5U751FU6210U7684csv analyzerU9069U914DU5668" -> <<"U9AD8", "U7D1A", "U81EA", "U52D5", "U751F", "U6210", "U7684", "c", "s", "v", " ", "a", "n", "a", "l", "y", "z", "e", "r", "U9069", "U914D", "U5668">>
      [] s = "U81EAU52D5U751FU6210U7684plotU9069U914DU5668" -> <<"U81EA", "U52D5", "U751F", "U6210", "U7684", "p", "l", "o", "t", "U9069", "U914D", "U5668">>
      [] s = "U9AD8U7D1AU81EAU52D5U751FU6210U7684plotU9069U914DU5668" -> <<"U9AD8", "U7D1A", "U81EA", "U52D5", "U751F", "U6210", "U7684", "p", "l", "o", "t", "U9069", "U914D", "U5668">>
      [] s = "U57FAU790EMCPU9069U914DU529FU80FD" -> <<"U57FA", "U790E", "M", "C", "P", "U9069", "U914D", "U529F", "U80FD">>
      [] s = "U57FAU790EmcpU9069U914DU529FU80FD" -> <<"U57FA", "U790E", "m", "c", "p", "U9069", "U914D", "U529F", "U80FD">>
      [] s = "generated" -> <<"g", "e", "n", "e", "r", "a", "t", "e", "d">>
      [] s = "csvmcp_adapter" -> <<"c", "s", "v", "m", "c", "p", "_", "a", "d", "a", "p", "t", "e", "r">>
      [] s = "CsvmcpMCP" -> <<"C", "s", "v", "m", "c", "p", "M", "C", "P">>
      [] s = "csvmcpmcp" -> <<"c", "s", "v", "m", "c", "p", "m", "c", "p">>
      [] s = "U81EAU52D5U751FU6210U7684csvmcpU9069U914DU5668" -> <<"U81EA", "U52D5", "U751F", "U6210", "U7684", "c", "s", "v", "m", "c", "p", "U9069", "U914D", "U5668">>
      [] s = "thought_action_recorder" -> <<"t", "h", "o", "u", "g", "h", "t", "_", "a", "c", "t", "i", "o", "n", "_", "r", "e", "c", "o", "r", "d", "e", "r">>
      [] s = "supermemory" -> <<"s", "u", "p", "e", "r", "m", "e", "m", "o", "r", "y">>
      [] s = "U601DU8003U64CDU4F5CU8A18U9304U5668" -> <<"U601D", "U8003", "U64CD", "U4F5C", "U8A18", "U9304", "U5668">>
      [] s = "SuperMemoryU9069U914DU5668" -> <<"S", "u", "p", "e", "r", "M", "e", "m", "o", "r", "y", "U9069", "U914D", "U5668">>
      [] s = "supermemoryU9069U914DU5668" -> <<"s", "u", "p", "e", "r", "m", "e", "m", "o", "r", "y", "U9069", "U914D", "U5668">>

\* str.lower() of the strings of the model: the string that has the lower-case characters
LowerStrOf == [ s \in Strings |-> CHOOSE t \in Strings : Chars(t) = Lower(Chars(s)) ]

\* s.lower()
LowerStr(s) == LowerStrOf[s]

\* set(str.split()) of the strings of the model
WordsOf == [ s \in Strings |-> RangeOf(Split(Chars(s))) ]

\* set(s.split())
Words(s) == WordsOf[s]
\* Python None is the empty tuple and any other optional value v is << v >>
None == << >>

Some(v) == << v >>

(***************************************************************************)
(* dict: the keys in insertion order, each with its value                  *)
(***************************************************************************)
DictKeys(d) == { d[i].id : i \in 1..Len(d) }

DictHas(d, id) == id \in DictKeys(d)

DictGet(d, id) == d[CHOOSE i \in 1..Len(d) : d[i].id = id].info

\* d[id] = info: a new key goes last, an existing key keeps its place
DictPut(d, id, info) ==
    IF DictHas(d, id)
    THEN [i \in 1..Len(d) |-> IF d[i].id = id THEN [id |-> id, info |-> info] ELSE d[i]]
    ELSE Append(d, [id |-> id, info |-> info])

(***************************************************************************)
(* UnifiedAdapterRegistry                                                  *)
(***************************************************************************)
\* self.adapter_categories: category id, display name
adapter_categories ==
    << << "core", "U6838U5FC3U7D44U4EF6" >>,
       << "ai_enhanced", "AIU589EU5F37U529FU80FD" >>,
       << "unified_config_manager", "U7D71U4E00U914DU7F6EU7BA1U7406" >>,
       << "unified_smart_tool_engine", "U7D71U4E00U667AU80FDU5DE5U5177U5F15U64CE" >>,
       << "optimization", "U512AU5316U76F8U95DC" >>,
       << "workflow", "U5DE5U4F5CU6D41U5F15U64CE" >>,
       << "development_tools", "U958BU767CU5DE5U5177" >>,
       << "integration", "U591AU9069U914DU5668U6574U5408" >>,
       << "claude_adapter", "ClaudeU9069U914DU5668" >>,
       << "gemini_adapter", "GeminiU9069U914DU5668" >>,
       << "kilocode_adapter", "KilocodeU9069U914DU5668" >>,
       << "infinite_context_adapter", "U7121U9650U4E0AU4E0BU6587U9069U914DU5668" >>,
       << "enhanced_aci_dev_adapter", "U589EU5F37ACI.devU9069U914DU5668" >>,
       << "zapier_adapter", "ZapierU9069U914DU5668" >>,
       << "rl_srt", "U5F37U5316U5B78U7FD2SRT" >>,
       << "srt", "SRTU9069U914DU5668" >>,
       << "real_ai_adapter", "U771FU5BE6AIU9069U914DU5668" >>,
       << "fixed_mcp_so_adapter", "U56FAU5B9AMCP.soU9069U914DU5668" >> >>

CategoryIds == { adapter_categories[i][1] : i \in 1..Len(adapter_categories) }

\* self.adapter_categories.get(category, "未知")
CategoryName(category) ==
    IF category \in CategoryIds
    THEN adapter_categories[CHOOSE i \in 1..Len(adapter_categories) :
                                adapter_categories[i][1] = category][2]
    ELSE "U672AU77E5"

\* "無描述", the description of a class without a docstring or of a record without metadata
NoDescription == "U7121U63CFU8FF0"

\* _determine_category: the first directory of the path that names a category,
\* else a guess from the file name
DetermineCategory(file) ==
    LET file_name == Lower(Chars(file.stem))
        hits == { i \in 1..Len(file.dirs) : file.dirs[i] \in CategoryIds }
    IN  IF hits # {}
        THEN file.dirs[CHOOSE i \in hits : \A j \in hits : i <= j]
        ELSE IF IsSubstr(<<"c", "o", "n", "f", "i", "g">>, file_name) \/ IsSubstr(<<"m", "a", "n", "a", "g", "e", "r">>, file_name)
             THEN "unified_config_manager"
        ELSE IF IsSubstr(<<"t", "o", "o", "l">>, file_name) \/ IsSubstr(<<"e", "n", "g", "i", "n", "e">>, file_name)
             THEN "unified_smart_tool_engine"
        ELSE IF IsSubstr(<<"o", "p", "t", "i", "m", "i", "z", "a", "t", "i", "o", "n">>, file_name) THEN "optimization"
        ELSE IF IsSubstr(<<"w", "o", "r", "k", "f", "l", "o", "w">>, file_name) THEN "workflow"
        ELSE IF IsSubstr(<<"c", "o", "r", "e">>, file_name) THEN "core"
        ELSE IF IsSubstr(<<"a", "i">>, file_name) \/ IsSubstr(<<"e", "n", "h", "a", "n", "c", "e", "d">>, file_name)
             THEN "ai_enhanced"
        ELSE "integration"

\* _generate_adapter_id: every branch returns name.lower()
GenerateAdapterId(name, category) == Lower(Chars(name))

\* a class of the module is an adapter only with both process and get_capabilities
IsMcpAdapterClassBoth(cls) == cls.own /\ cls.has_process /\ cls.has_get_capabilities

\* _is_mcp_adapter_class
IsMcpAdapterClass(cls) ==
    IF ~cls.own THEN FALSE
    ELSE IF IsSubstr(<<"m", "c", "p">>, Lower(Chars(cls.name))) THEN TRUE
    ELSE IF cls.has_process THEN TRUE
    ELSE IF cls.has_get_capabilities THEN TRUE
    ELSE \E pattern \in { <<"a", "d", "a", "p", "t", "e", "r">>, <<"e", "n", "g", "i", "n", "e">>, <<"c", "o", "r", "e">>, <<"m", "a", "n", "a", "g", "e", "r">> } :
            IsSubstr(pattern, Lower(Chars(cls.name)))

\* _collect_adapter_metadata: the metadata of a class; the capabilities are read
\* from a temporary instance and stay empty when that fails
CollectAdapterMetadata(cls) ==
    [ description |-> IF cls.doc = "" THEN NoDescription ELSE cls.doc,
      capabilities |-> IF cls.has_get_capabilities /\ cls.ctor_ok THEN cls.capabilities
                       ELSE << >>,
      methods |-> cls.methods,
      has_process |-> cls.has_process,
      has_validate_input |-> cls.has_validate_input,
      has_get_capabilities |-> cls.has_get_capabilities ]

\* _register_adapter_class on the registry reg = [adapters, metadata, clock]
RegisterAdapterClass(reg, cls, file) ==
    LET category == DetermineCategory(file)
        adapter_id == GenerateAdapterId(cls.name, category)
    IN  [ adapters |-> DictPut(reg.adapters, adapter_id,
                               [ name |-> cls.name,
                                 class |-> Some(cls),
                                 category |-> category,
                                 file_path |-> Append(file.dirs, file.stem),
                                 module_path |-> Append(file.dirs, file.stem),
                                 registered_at |-> reg.clock ]),
          metadata |-> DictPut(reg.metadata, adapter_id, CollectAdapterMetadata(cls)),
          clock |-> reg.clock + 1 ]

RECURSIVE RegisterClasses(_, _, _)
\* the loop of _register_adapter_from_file over inspect.getmembers(module, isclass)
RegisterClasses(reg, classes, file) ==
    IF classes = << >> THEN reg
    ELSE RegisterClasses(IF IsMcpAdapterClass(Head(classes))
                         THEN RegisterAdapterClass(reg, Head(classes), file)
                         ELSE reg,
                         Tail(classes), file)

\* _register_adapter_from_file: a module that fails to import registers nothing
RegisterAdapterFromFile(reg, file) ==
    IF ~file.importable THEN reg
    ELSE LET adapter_found == \E i \in 1..Len(file.classes) : IsMcpAdapterClass(file.classes[i])
             after == RegisterClasses(reg, file.classes, file)
         IN  IF ~adapter_found /\ EndsWith(Chars(file.stem), <<"_", "m", "c", "p">>)
             THEN [ after EXCEPT
                      !.adapters = DictPut(after.adapters, Lower(Chars(file.stem)),
                                     [ name |-> file.stem,
                                       class |-> None,
                                       category |-> DetermineCategory(file),
                                       file_path |-> Append(file.dirs, file.stem),
                                       module_path |-> Append(file.dirs, file.stem),
                                       registered_at |-> after.clock,
                                       status |-> "file_only" ]),
                      !.clock = after.clock + 1 ]
             ELSE after

RECURSIVE DiscoverFiles(_, _)
\* _discover_adapters: every *.py file under the adapters root except __*.py,
\* base_mcp.py and error_handler.py
DiscoverFiles(reg, files) ==
    IF files = << >> THEN reg
    ELSE LET py_file == Head(files)
         IN  DiscoverFiles(IF \/ StartsWith(Chars(py_file.stem), <<"_", "_">>)
                              \/ py_file.stem \in { "base_mcp", "error_handler" }
                           THEN reg
                           ELSE RegisterAdapterFromFile(reg, py_file),
                           Tail(files))

\* UnifiedAdapterRegistry.__init__: empty tables, then _discover_adapters
NewRegistry(files) == DiscoverFiles([ adapters |-> << >>, metadata |-> << >>, clock |-> 1 ], files)

RECURSIVE InsertSorted(_, _)
\* one step of the stable sort of list_adapters by (category, name)
InsertSorted(sorted, a) ==
    IF sorted = << >> THEN << a >>
    ELSE LET last == sorted[Len(sorted)]
             before == \/ StrLess(Chars(a.category), Chars(last.category))
                       \/ /\ a.category = last.category
                          /\ StrLess(Chars(a.name), Chars(last.name))
         IN  IF before
             THEN Append(InsertSorted(SubSeq(sorted, 1, Len(sorted) - 1), a), last)
             ELSE Append(sorted, a)

\* the list as the loop built it, in the order of registration
SortAdaptersNot(adapters) == adapters

RECURSIVE SortAdapters(_)
SortAdapters(adapters) ==
    IF adapters = << >> THEN << >>
    ELSE InsertSorted(SortAdapters(SubSeq(adapters, 1, Len(adapters) - 1)),
                      adapters[Len(adapters)])

\* list_adapters reads these keys of every record; a record without one raises KeyError
ListAdaptersRaises(reg) ==
    \E i \in 1..Len(reg.adapters) :
        ~ ({ "name", "category", "file_path", "registered_at" } \subseteq DOMAIN reg.adapters[i].info)

\* the entry list_adapters appends for a record
AdapterEntry(reg, adapter_id, adapter_info) ==
    LET has_meta == DictHas(reg.metadata, adapter_id)
        metadata == DictGet(reg.metadata, adapter_id)
    IN  [ id |-> adapter_id,
          name |-> adapter_info.name,
          category |-> adapter_info.category,
          category_name |-> CategoryName(adapter_info.category),
          description |-> IF has_meta THEN metadata.description ELSE NoDescription,
          capabilities |-> IF has_meta THEN metadata.capabilities ELSE << >>,
          methods_count |-> IF has_meta THEN metadata.methods ELSE 0,
          file_path |-> adapter_info.file_path,
          registered_at |-> adapter_info.registered_at ]

RECURSIVE ListFrom(_, _)
\* the loop of list_adapters over the records from position i
ListFrom(reg, i) ==
    IF i > Len(reg.adapters) THEN << >>
    ELSE << AdapterEntry(reg, reg.adapters[i].id, reg.adapters[i].info) >> \o ListFrom(reg, i + 1)

\* list_adapters(): one entry per record, sorted by (category, name)
ListAdapters(reg) == SortAdapters(ListFrom(reg, 1))

(***************************************************************************)
(* DynamicAdapterDiscovery: the matcher                                    *)
(***************************************************************************)
\* the share, in 1/60, of the words of the first text that are words of the second
CalculateTextSimilarityOfFirst(text1, text2) ==
    IF text1 = "" \/ text2 = "" THEN 0
    ELSE LET words1 == Words(text1)
             words2 == Words(text2)
         IN  IF words1 = {} \/ words2 = {} THEN 0
             ELSE (60 * Cardinality(words1 \cap words2)) \div Cardinality(words1)

\* _calculate_text_similarity in 1/60: the Jaccard similarity of the two word sets
CalculateTextSimilarity(text1, text2) ==
    IF text1 = "" \/ text2 = "" THEN 0
    ELSE LET words1 == Words(text1)
             words2 == Words(text2)
         IN  IF words1 = {} \/ words2 = {} THEN 0
             ELSE (60 * Cardinality(words1 \cap words2)) \div Cardinality(words1 \cup words2)

\* adapter.get("capabilities", []) is not empty and the requirement has no capability:
\* capability_matches / len(requirement.capabilities) raises ZeroDivisionError
MatchScoreRaises(requirement, adapter) ==
    adapter.capabilities # << >> /\ requirement.capabilities = << >>

\* the capabilities of the requirement that are capabilities of the adapter
CapabilityMatchesExact(requirement, adapter) ==
    Cardinality({ i \in 1..Len(requirement.capabilities) :
        \E j \in 1..Len(adapter.capabilities) :
            requirement.capabilities[i] = adapter.capabilities[j] })

\* the capabilities of the requirement that contain, or are contained in, a capability
\* of the adapter
CapabilityMatches(requirement, adapter) ==
    Cardinality({ i \in 1..Len(requirement.capabilities) :
        \E j \in 1..Len(adapter.capabilities) :
            LET req_cap == Chars(LowerStr(requirement.capabilities[i]))
                adapter_cap == Chars(LowerStr(adapter.capabilities[j]))
            IN  IsSubstr(req_cap, adapter_cap) \/ IsSubstr(adapter_cap, req_cap) })

\* the four parts summed without their weights and without min(1.0, score)
CalculateMatchScoreUnweighted(requirement, adapter) ==
    10 * CalculateTextSimilarity(LowerStr(requirement.name), LowerStr(adapter.name))
    + 10 * CalculateTextSimilarity(LowerStr(requirement.description),
                                   LowerStr(adapter.description))
    + (IF adapter.capabilities # << >>
       THEN 10 * ((60 * CapabilityMatches(requirement, adapter))
                    \div Len(requirement.capabilities))
       ELSE 0)
    + (IF IsSubstr(Chars(LowerStr(requirement.category)),
                   Chars(LowerStr(adapter.category_name)))
       THEN 600 ELSE 0)

\* _calculate_match_score in 1/600, where it does not raise
CalculateMatchScore(requirement, adapter) ==
    LET name_similarity == CalculateTextSimilarity(LowerStr(requirement.name),
                                                   LowerStr(adapter.name))
        desc_similarity == CalculateTextSimilarity(LowerStr(requirement.description),
                                                   LowerStr(adapter.description))
        capability_part ==
            IF adapter.capabilities # << >>
            THEN 4 * ((60 * CapabilityMatches(requirement, adapter))
                        \div Len(requirement.capabilities))
            ELSE 0
        category_part ==
            IF IsSubstr(Chars(LowerStr(requirement.category)),
                        Chars(LowerStr(adapter.category_name)))
            THEN 60 ELSE 0
        score == 3 * name_similarity + 2 * desc_similarity + capability_part + category_part
    IN  IF score > 600 THEN 600 ELSE score

\* AdapterDiscoveryResult(found=False)
NotFoundResult ==
    [ found |-> FALSE, adapter_id |-> None, adapter_name |-> None, match_score |-> 0,
      capabilities |-> None, created_new |-> FALSE, creation_details |-> None ]

RECURSIVE BestMatchLast(_, _, _, _)
\* the loop with >= for >: of the adapters with the highest score the last one is kept
BestMatchLast(requirement, adapters, i, best) ==
    IF i > Len(adapters) THEN best
    ELSE LET score == CalculateMatchScore(requirement, adapters[i])
         IN  BestMatchLast(requirement, adapters, i + 1,
                           IF score >= best.score
                           THEN [ score |-> score, match |-> Some(adapters[i]) ]
                           ELSE best)

RECURSIVE BestMatch(_, _, _, _)
\* the loop of _search_existing_adapters from position i: a later adapter replaces
\* the best one only with a strictly greater score
BestMatch(requirement, adapters, i, best) ==
    IF i > Len(adapters) THEN best
    ELSE LET score == CalculateMatchScore(requirement, adapters[i])
         IN  BestMatch(requirement, adapters, i + 1,
                       IF score > best.score
                       THEN [ score |-> score, match |-> Some(adapters[i]) ]
                       ELSE best)

\* a match is returned as found above 0.5
FoundThreshold == 300

\* _search_existing_adapters: without a registry, or when list_adapters or the score
\* of a listed adapter raises, the result is not found
SearchExistingAdapters(registry, requirement) ==
    IF registry = None THEN NotFoundResult
    ELSE IF ListAdaptersRaises(registry[1]) THEN NotFoundResult
    ELSE LET adapters == ListAdapters(registry[1])
             best == BestMatch(requirement, adapters, 1, [ score |-> 0, match |-> None ])
         IN  IF \E i \in 1..Len(adapters) : MatchScoreRaises(requirement, adapters[i])
             THEN NotFoundResult
             ELSE IF best.match # None /\ best.score > FoundThreshold
             THEN [ found |-> TRUE,
                    adapter_id |-> Some(best.match[1].id),
                    adapter_name |-> Some(best.match[1].name),
                    match_score |-> best.score,
                    capabilities |-> Some(best.match[1].capabilities),
                    created_new |-> FALSE,
                    creation_details |-> None ]
             ELSE NotFoundResult

\* discover_adapter returns the existing adapter above 0.8
ReuseThreshold == 480

\* IsDirectReuse with the threshold at 0.95
IsDirectReuseAbove095(existing_result) ==
    existing_result.found /\ existing_result.match_score > 570

\* IsDirectReuse without the threshold: any found result is returned
IsDirectReuseAnyFound(existing_result) == existing_result.found

\* discover_adapter returns every match the search found, the weak ones too
IsDirectReuseAboveHalf(existing_result) ==
    existing_result.found /\ existing_result.match_score > FoundThreshold

\* the test of discover_adapter on the result of the search
IsDirectReuse(existing_result) ==
    existing_result.found /\ existing_result.match_score > ReuseThreshold

\* the template chosen from the number of capabilities alone
SelectTemplateByTags(requirement) ==
    IF Len(requirement.capabilities) > 3
    THEN "advanced_tool_adapter"
    ELSE "basic_mcp_adapter"

(***************************************************************************)
(* DynamicAdapterDiscovery: the synthesizer                                *)
(***************************************************************************)
\* _select_template
SelectTemplate(requirement) ==
    IF Len(requirement.capabilities) > 3 \/ requirement.priority > 5
    THEN "advanced_tool_adapter"
    ELSE "basic_mcp_adapter"

\* the class name of _generate_adapter_code
ClassName(requirement) ==
    LET words == Split(Chars(requirement.name))
    IN  Join([ i \in 1..Len(words) |-> Capitalize(words[i]) ]) \o <<"M", "C", "P">>

\* _generate_adapter_code raises when json.dumps cannot serialise a schema
GenerateRaises(requirement) == ~requirement.schema_ok

\* _generate_adapter_code: the template and the values substituted into it
GenerateAdapterCode(requirement) ==
    [ template |-> SelectTemplate(requirement),
      name |-> requirement.name,
      description |-> requirement.description,
      class_name |-> ClassName(requirement),
      capabilities |-> requirement.capabilities,
      category |-> requirement.category ]

\* requirement.name.lower().replace(' ', '_')
Slug(name) == Replace(Chars(LowerStr(name)), " ", "_")

\* adapter_filename of _create_new_adapter, a file of generated_dir
AdapterFilename(requirement) == Slug(requirement.name) \o <<"_", "a", "d", "a", "p", "t", "e", "r", ".", "p", "y">>

\* the adapter_id of a created result
GeneratedId(requirement) == <<"g", "e", "n", "e", "r", "a", "t", "e", "d", ".">> \o Slug(requirement.name)

\* a Python identifier: letters, digits and "_", not starting with a digit
IsIdentifier(s) ==
    /\ s # << >>
    /\ s[1] \notin RangeOf(Digits)
    /\ \A i \in 1..Len(s) : s[i] \notin { " ", "\"", "-", "." }

\* the rendered source compiles and executes: the class name is an identifier and no
\* substituted value closes the string literal it is put into
ValidSource(code) ==
    /\ IsIdentifier(code.class_name)
    /\ \A s \in { code.name, code.description, code.category } : "\"" \notin RangeOf(Chars(s))

\* _load_adapter_module: a module (TRUE) or None (FALSE) for the content of the file;
\* a file still empty is an empty module
LoadAdapterModule(content) == content = None \/ ValidSource(content[1])

\* the result of _create_new_adapter when nothing raised
CreatedResult(requirement, adapter_path) ==
    [ found |-> TRUE,
      adapter_id |-> Some(GeneratedId(requirement)),
      adapter_name |-> Some(requirement.name),
      match_score |-> 600,
      capabilities |-> Some(requirement.capabilities),
      created_new |-> TRUE,
      creation_details |-> Some([ adapter_file |-> adapter_path,
                                  template_used |-> SelectTemplate(requirement),
                                  capabilities_implemented |-> requirement.capabilities ]) ]

\* the result of _create_new_adapter when a step raised
FailedResult(error) ==
    [ found |-> FALSE, adapter_id |-> None, adapter_name |-> None, match_score |-> 0,
      capabilities |-> None, created_new |-> FALSE,
      creation_details |-> Some([ error |-> error ]) ]

\* _register_new_adapter: it writes a log line and leaves the registry as it is
RegisterNewAdapter(registry, requirement, adapter_module) == registry

(***************************************************************************)
(* The files under the adapters root when the registry is constructed, and *)
(* the requirements the callers ask for                                    *)
(***************************************************************************)
\* class CsvMCP in core/csv_mcp.py: process and get_capabilities, capability "csv"
CsvClass ==
    [ name |-> "CsvMCP", own |-> TRUE, doc |-> "parse csv",
      has_process |-> TRUE, has_get_capabilities |-> TRUE, has_validate_input |-> FALSE,
      methods |-> 2, ctor_ok |-> TRUE, ctor_kwargs_ok |-> TRUE, process_ok |-> TRUE,
      capabilities |-> << "csv" >> ]

CsvFile ==
    [ dirs |-> << "core" >>, stem |-> "csv_mcp", importable |-> TRUE,
      classes |-> << CsvClass >> ]

\* notes_mcp.py: it imports, defines no class and is registered from its name alone
NotesFile ==
    [ dirs |-> << >>, stem |-> "notes_mcp", importable |-> TRUE, classes |-> << >> ]

ScanTrees == { << CsvFile, NotesFile >> }

MakeRequirement(name, description, capabilities, schema_ok, priority, category) ==
    [ name |-> name, description |-> description, capabilities |-> capabilities,
      schema_ok |-> schema_ok, priority |-> priority, category |-> category ]

\* scores 0.9 against CsvMCP: same name, same description, same capability
ReqReuse ==
    MakeRequirement("csvmcp", "parse csv", << "csv" >>, TRUE, 1, "general")

\* scores 0.6 against CsvMCP: same description, same capability
ReqAnalyzer ==
    MakeRequirement("CSV Analyzer", "parse csv", << "csv" >>, TRUE, 3, "general")

\* the file name of ReqAnalyzer and another source text; scores 0.2 against CsvMCP
ReqAnalyzerLower ==
    MakeRequirement("csv analyzer", "analyze", << "csv_parsing", "statistics" >>,
                    TRUE, 3, "general")

\* no capability
ReqNoCaps ==
    MakeRequirement("nocaps", "analyze", << >>, TRUE, 1, "general")

\* the class name Csv-xMCP is no identifier: the generated module does not load
ReqBadName ==
    MakeRequirement("csv-x", "analyze", << "csv" >>, TRUE, 1, "general")

\* a schema json.dumps cannot serialise
ReqBadSchema ==
    MakeRequirement("plot", "analyze", << "chart" >>, FALSE, 1, "general")

Requirements ==
    { ReqReuse, ReqAnalyzer, ReqAnalyzerLower, ReqNoCaps, ReqBadName, ReqBadSchema }

\* the number of concurrent callers of discover_adapter
NumCallers == 2

Callers == 1..NumCallers

\* the number of threads that call get_global_registry
NumThreads == 2

Threads == 1..NumThreads

\* the condition of the file system during a run: "ok"; "generated_readonly", no file
\* of generated_dir can be opened for writing; "full", a file can be created but no
\* data written; "results_blocked", test/results cannot be created; "history_readonly",
\* the history file cannot be opened for writing
Disks == { "ok", "generated_readonly", "full", "results_blocked", "history_readonly" }

(***************************************************************************)
(* State                                                                   *)
(***************************************************************************)
VARIABLES
    registry,           \* self.adapter_registry: None, or Some registry
    files,              \* generated_dir: file name -> None (empty) or Some source
    discovery_history,  \* self.discovery_history
    history_file,       \* test/results/adapter_discovery_history.json
    disk,               \* the condition of the file system
    pc,                 \* where each call of discover_adapter is
    requirement,        \* its argument
    adapter_code,       \* its adapter_code, once generated
    adapter_path,       \* its adapter_path, the file of generated_dir it writes
    existing_result,    \* its existing_result, once it has searched
    result,             \* the AdapterDiscoveryResult it returns
    obs,                \* what each call has done so far
    scan,               \* UnifiedAdapterRegistry.__init__ at work: the registry it fills
    adapter_instances,  \* self.adapter_instances of the registry
    reply,              \* the last call of the registry API and what it gave
    heap,               \* the UnifiedAdapterRegistry objects constructed for the global
    global_registry,    \* _global_registry: None, or the place of an object in the heap
    threads             \* where each thread is in get_global_registry, and its reference

\* the state of the registry and of its callers
regvars == << scan, adapter_instances, reply >>

\* the state of the module of the registry and of the threads that share it
procvars == << heap, global_registry, threads >>

\* a thread that has not called get_global_registry
NoThread == [ pc |-> "start", made |-> None, ref |-> None ]

vars == << registry, files, discovery_history, history_file, disk, pc, requirement,
           adapter_code, adapter_path, existing_result, result, obs, regvars, procvars >>

\* a call that is between its invocation and its return
Running(c) == pc[c] \notin { "idle", "returned", "raised" }

NoObs ==
    [ stages |-> << >>,    \* the states the call went through
      scored |-> 0,        \* the adapters whose score it computed
      wrote |-> 0,         \* the times it wrote its generated file
      appended |-> 0,      \* the records it appended to the history
      registered |-> 0,    \* the records it added to the registry
      failed |-> "none",   \* the step of the synthesis that failed
      before |-> None,     \* the file at its path when it opened it, if there was one
      prior |-> {},        \* the calls that had returned a created adapter when it began
      overlap |-> {},      \* the calls that were running when it began
      best |-> None,       \* the highest score of a listed adapter when it began
      scores |-> << >> ]   \* the scores its search computed

\* a registry whose constructor has returned: nothing is left to scan
NoScan == [ tree |-> << >>, todo |-> << >>, reg |-> None, log |-> << >> ]

Init ==
    /\ registry \in { None } \cup { Some(NewRegistry(tree)) : tree \in ScanTrees }
    /\ files = << >>
    /\ discovery_history = << >>
    /\ history_file = [ state |-> "absent", records |-> << >> ]
    /\ disk \in Disks
    /\ pc = [ c \in Callers |-> "idle" ]
    /\ requirement = [ c \in Callers |-> None ]
    /\ adapter_code = [ c \in Callers |-> None ]
    /\ adapter_path = [ c \in Callers |-> None ]
    /\ existing_result = [ c \in Callers |-> None ]
    /\ result = [ c \in Callers |-> None ]
    /\ obs = [ c \in Callers |-> NoObs ]
    /\ scan = NoScan
    /\ adapter_instances = << >>
    /\ reply = None
    /\ heap = << >>
    /\ global_registry = None
    /\ threads = [ t \in Threads |-> NoThread ]

\* files with the content of one path replaced
WriteTo(fs, path, content) ==
    [ p \in DOMAIN fs \cup { path } |-> IF p = path THEN content ELSE fs[p] ]

RECURSIVE ScoresFrom(_, _, _)
\* the scores the loop of _search_existing_adapters computes from position i, until
\* one raises
ScoresFrom(req, adapters, i) ==
    IF i > Len(adapters) \/ MatchScoreRaises(req, adapters[i]) THEN << >>
    ELSE << CalculateMatchScore(req, adapters[i]) >> \o ScoresFrom(req, adapters, i + 1)

\* the scores the search of the registry computes for the requirement
SearchScores(reg, req) ==
    IF reg = None \/ ListAdaptersRaises(reg[1]) THEN << >>
    ELSE ScoresFrom(req, ListAdapters(reg[1]), 1)

\* the highest score of an adapter of list_adapters() for the requirement, when the
\* registry lists and every score is computed
BestScore(reg, req) ==
    IF reg = None \/ ListAdaptersRaises(reg[1]) THEN None
    ELSE LET adapters == ListAdapters(reg[1])
         IN  IF \E i \in 1..Len(adapters) : MatchScoreRaises(req, adapters[i]) THEN None
             ELSE LET scores == { CalculateMatchScore(req, adapters[i]) : i \in 1..Len(adapters) }
                  IN  Some(IF scores = {} THEN 0
                           ELSE CHOOSE s \in scores : \A u \in scores : u <= s)

\* the adapters whose score the search computes before it ends or raises
ScoredCount(reg, req) ==
    IF reg = None \/ ListAdaptersRaises(reg[1]) THEN 0
    ELSE LET adapters == ListAdapters(reg[1])
             raising == { i \in 1..Len(adapters) : MatchScoreRaises(req, adapters[i]) }
         IN  IF raising = {} THEN Len(adapters)
             ELSE CHOOSE i \in raising : \A j \in raising : i <= j

(***************************************************************************)
(* discover_adapter, one action for each step of a call                    *)
(***************************************************************************)
\* A caller calls discover_adapter(r), which runs _search_existing_adapters and tests
\* its result: it returns the existing adapter, or goes on to create one. The callers
\* start in the order of their numbers.
Discover(c, r) ==
    /\ pc[c] = "idle"
    /\ \A d \in Callers : d < c => pc[d] # "idle"
    /\ requirement' = [ requirement EXCEPT ![c] = Some(r) ]
    /\ existing_result' = [ existing_result EXCEPT ![c] = Some(SearchExistingAdapters(registry, r)) ]
    /\ LET began == [ obs[c] EXCEPT
                        !.scored = ScoredCount(registry, r),
                        !.best = BestScore(registry, r),
                        !.scores = SearchScores(registry, r),
                        !.overlap = { d \in Callers : Running(d) },
                        !.prior = { d \in Callers :
                                      /\ pc[d] = "returned"
                                      /\ result[d][1].created_new
                                      /\ adapter_path[d] = Some(AdapterFilename(r)) } ]
       IN  IF IsDirectReuse(existing_result'[c][1])
           THEN /\ result' = [ result EXCEPT ![c] = existing_result'[c] ]
                /\ pc' = [ pc EXCEPT ![c] = "returned" ]
                /\ obs' = [ obs EXCEPT ![c] =
                              [ began EXCEPT !.stages = << "Searching", "Found" >> ] ]
           ELSE /\ result' = result
                /\ pc' = [ pc EXCEPT ![c] = "create" ]
                /\ obs' = [ obs EXCEPT ![c] =
                              [ began EXCEPT !.stages = << "Searching", "Synthesizing" >> ] ]
    /\ UNCHANGED << registry, files, discovery_history, history_file, disk, adapter_code,
                    adapter_path, regvars, procvars >>

\* _create_new_adapter: _generate_adapter_code, then open(adapter_path, 'w'), which
\* creates the file or empties it
CreateFile(c) ==
    /\ pc[c] = "create"
    /\ IF GenerateRaises(requirement[c][1])
       THEN /\ result' = [ result EXCEPT ![c] = Some(FailedResult("render")) ]
            /\ pc' = [ pc EXCEPT ![c] = "record" ]
            /\ obs' = [ obs EXCEPT ![c].failed = "render",
                                   ![c].stages = Append(@, "SynthesisFailed") ]
            /\ UNCHANGED << adapter_code, adapter_path, files >>
       ELSE LET path == AdapterFilename(requirement[c][1])
            IN  /\ adapter_code' = [ adapter_code EXCEPT
                                       ![c] = Some(GenerateAdapterCode(requirement[c][1])) ]
                /\ adapter_path' = [ adapter_path EXCEPT ![c] = Some(path) ]
                /\ IF disk = "generated_readonly"
                   THEN /\ result' = [ result EXCEPT ![c] = Some(FailedResult("write")) ]
                        /\ pc' = [ pc EXCEPT ![c] = "record" ]
                        /\ obs' = [ obs EXCEPT ![c].failed = "write",
                                               ![c].stages = Append(@, "SynthesisFailed") ]
                        /\ files' = files
                   ELSE /\ files' = WriteTo(files, path, None)
                        /\ pc' = [ pc EXCEPT ![c] = "write" ]
                        /\ obs' = [ obs EXCEPT ![c].before =
                                      IF path \in DOMAIN files THEN Some(files[path])
                                      ELSE None ]
                        /\ result' = result
    /\ UNCHANGED << registry, discovery_history, history_file, disk, requirement,
                    existing_result, regvars, procvars >>

\* _create_new_adapter: f.write(adapter_code) and the close of the file
WriteFile(c) ==
    /\ pc[c] = "write"
    /\ IF disk = "full"
       THEN /\ result' = [ result EXCEPT ![c] = Some(FailedResult("write")) ]
            /\ pc' = [ pc EXCEPT ![c] = "record" ]
            /\ obs' = [ obs EXCEPT ![c].failed = "write",
                                   ![c].stages = Append(@, "SynthesisFailed") ]
            /\ files' = files
       ELSE /\ files' = WriteTo(files, adapter_path[c][1], adapter_code[c])
            /\ pc' = [ pc EXCEPT ![c] = "load" ]
            /\ obs' = [ obs EXCEPT ![c].wrote = @ + 1 ]
            /\ result' = result
    /\ UNCHANGED << registry, discovery_history, history_file, disk, requirement,
                    adapter_code, adapter_path,
                    existing_result, regvars, procvars >>

\* _create_new_adapter: _load_adapter_module, _register_new_adapter when there is a
\* registry and a module, and the result
LoadAndRegister(c) ==
    /\ pc[c] = "load"
    /\ LET adapter_module == LoadAdapterModule(files[adapter_path[c][1]])
           registered == IF registry # None /\ adapter_module
                         THEN RegisterNewAdapter(registry, requirement[c][1], adapter_module)
                         ELSE registry
       IN  /\ registry' = registered
           /\ result' = [ result EXCEPT
                            ![c] = Some(CreatedResult(requirement[c][1], adapter_path[c][1])) ]
           /\ obs' = [ obs EXCEPT ![c].failed = IF adapter_module THEN "none" ELSE "load",
                                  ![c].registered = IF registered # registry THEN 1 ELSE 0,
                                  ![c].stages = Append(@, "Registered") ]
    /\ pc' = [ pc EXCEPT ![c] = "record" ]
    /\ UNCHANGED << files, discovery_history, history_file, disk, requirement,
                    adapter_code, adapter_path,
                    existing_result, regvars, procvars >>

\* the record _record_discovery appends
DiscoveryRecord(req, res) ==
    [ requirement |-> [ name |-> req.name, description |-> req.description,
                        capabilities |-> req.capabilities, category |-> req.category,
                        priority |-> req.priority ],
      result |-> [ found |-> res.found, adapter_id |-> res.adapter_id,
                   adapter_name |-> res.adapter_name, match_score |-> res.match_score,
                   created_new |-> res.created_new,
                   creation_details |-> res.creation_details ] ]

\* _save_discovery_history once the directory exists: the whole history replaces the
\* file; a failure to open leaves the file, a failure to write leaves a part of it
SaveDiscoveryHistory(history) ==
    CASE disk = "history_readonly" -> history_file
      [] disk = "full"             -> [ state |-> "partial", records |-> << >> ]
      [] OTHER                     -> [ state |-> "complete", records |-> history ]

\* _record_discovery and _save_discovery_history, then the return of discover_adapter;
\* mkdir is outside the try and its failure leaves the call with the exception
RecordDiscovery(c) ==
    /\ pc[c] = "record"
    /\ discovery_history' =
          Append(discovery_history, DiscoveryRecord(requirement[c][1], result[c][1]))
    /\ obs' = [ obs EXCEPT ![c].appended = @ + 1 ]
    /\ IF disk = "results_blocked"
       THEN /\ pc' = [ pc EXCEPT ![c] = "raised" ]
            /\ history_file' = history_file
       ELSE /\ pc' = [ pc EXCEPT ![c] = "returned" ]
            /\ history_file' = SaveDiscoveryHistory(discovery_history')
    /\ UNCHANGED << registry, files, disk, requirement, adapter_code, adapter_path,
                    result,
                    existing_result, regvars, procvars >>

Next ==
    \E c \in Callers :
        \/ \E r \in Requirements : Discover(c, r)
        \/ CreateFile(c)
        \/ WriteFile(c)
        \/ LoadAndRegister(c)
        \/ RecordDiscovery(c)

Spec == Init /\ [][Next]_vars

(***************************************************************************)
(* Properties of discover_adapter                                          *)
(***************************************************************************)
Returned(c) == pc[c] = "returned"

Req(c) == requirement[c][1]

Res(c) == result[c][1]

\* the ids of the records of the registry
RegistryIds == IF registry = None THEN {} ELSE DictKeys(registry[1].adapters)

\* the calls that wrote the generated file of a path
WritersOf(path) == { c \in Callers : adapter_path[c] = Some(path) /\ obs[c].wrote > 0 }

\* the calls for a path that added a record to the registry
RegistrarsOf(path) == { c \in Callers : adapter_path[c] = Some(path) /\ obs[c].registered > 0 }

\* the registry holds a provider whose score for the requirement is above 0.8
HasMatchingProvider(reg, req) ==
    /\ reg # None
    /\ ~ListAdaptersRaises(reg[1])
    /\ LET adapters == ListAdapters(reg[1])
       IN  \E i \in 1..Len(adapters) :
              /\ ~MatchScoreRaises(req, adapters[i])
              /\ CalculateMatchScore(req, adapters[i]) > ReuseThreshold

\* C1: a result with created_new = true has found = true, and when it is returned the
\* registry holds a record under its adapter_id.
C1_CreatedIsRegistered ==
    \A c \in Callers :
        Returned(c) /\ Res(c).created_new =>
            /\ Res(c).found
            /\ Res(c).adapter_id # None
            /\ Res(c).adapter_id[1] \in RegistryIds

\* C2: a call that has returned, with an existing adapter, a created one or a failed
\* synthesis, has appended exactly one record to the discovery history, the record of
\* its result.
C2_OneRecordBeforeReturn ==
    \A c \in Callers :
        Returned(c) =>
            /\ obs[c].appended = 1
            /\ \E i \in 1..Len(discovery_history) :
                  discovery_history[i] = DiscoveryRecord(Req(c), Res(c))

\* C3: when two concurrent calls for the same synthesis key have both returned, exactly
\* one call has written the generated file of the key and exactly one has added a
\* record to the registry.
C3_OneSynthesisPerKey ==
    \A c, d \in Callers :
        /\ c # d
        /\ Returned(c) /\ Returned(d)
        /\ c \in obs[d].overlap
        /\ Slug(Req(c).name) = Slug(Req(d).name)
        => /\ Cardinality(WritersOf(AdapterFilename(Req(c)))) = 1
           /\ Cardinality(RegistrarsOf(AdapterFilename(Req(c)))) = 1

\* C4: a call that begins after another call has returned a created adapter for the
\* same key returns that adapter as found, with created_new = false.
C4_LaterCallReusesCreated ==
    \A c \in Callers :
        Returned(c) /\ obs[c].prior # {} =>
            /\ Res(c).found
            /\ ~Res(c).created_new
            /\ \E d \in obs[c].prior : Res(c).adapter_id = Res(d).adapter_id

\* C5: a call whose synthesis failed at a step (render, write, load or register)
\* returns found = false and created_new = false with the error attached.
C5_FailedSynthesisNotFound ==
    \A c \in Callers :
        Returned(c) /\ obs[c].failed # "none" =>
            /\ ~Res(c).found
            /\ ~Res(c).created_new
            /\ Res(c).creation_details # None
            /\ "error" \in DOMAIN Res(c).creation_details[1]

\* C6: a call whose requirement has no capability scores no record, writes no file,
\* appends no history record, adds nothing to the registry and never enters synthesis.
C6_EmptyCapabilitiesRejected ==
    \A c \in Callers :
        requirement[c] # None /\ Req(c).capabilities = << >> =>
            /\ obs[c].scored = 0
            /\ obs[c].wrote = 0
            /\ obs[c].appended = 0
            /\ obs[c].registered = 0
            /\ adapter_path[c] = None
            /\ pc[c] \notin { "create", "write", "load", "record" }

\* C7: a call that found a complete file with another text at its path has failed with
\* a write error and has not written the file.
C7_ConflictingWriteFails ==
    \A c \in Callers :
        /\ pc[c] \in { "load", "record", "returned", "raised" }
        /\ obs[c].before # None
        /\ obs[c].before[1] # None
        /\ obs[c].before[1] # adapter_code[c]
        => /\ obs[c].failed = "write"
           /\ obs[c].wrote = 0

\* C8: no call with a valid requirement (at least one capability) ends with an
\* exception instead of a result.
C8_NoExceptionEscapes ==
    \A c \in Callers :
        requirement[c] # None /\ Req(c).capabilities # << >> => pc[c] # "raised"

\* C9: two calls with the same requirement against a registry that holds a provider
\* scoring above 0.8 both return found = true, created_new = false and the same
\* adapter_id, and neither adds a registry record or writes a generated file.
C9_ReuseIsIdempotent ==
    \A c, d \in Callers :
        /\ c # d
        /\ Returned(c) /\ Returned(d)
        /\ requirement[c] = requirement[d]
        /\ HasMatchingProvider(registry, Req(c))
        => /\ Res(c).found /\ Res(d).found
           /\ ~Res(c).created_new /\ ~Res(d).created_new
           /\ Res(c).adapter_id = Res(d).adapter_id
           /\ Res(c).adapter_id[1] \in RegistryIds
           /\ \A e \in { c, d } :
                 /\ obs[e].wrote = 0
                 /\ obs[e].registered = 0
                 /\ adapter_path[e] = None

\* two calls with the same requirement have returned from a registry that holds a
\* provider scoring above 0.8 for it
C9_Witness ==
    \E c, d \in Callers :
        /\ c # d
        /\ Returned(c) /\ Returned(d)
        /\ requirement[c] = requirement[d]
        /\ HasMatchingProvider(registry, Req(c))
        /\ ~Res(d).created_new

\* C10: a call that has ended has a result, and a call with a result went Searching ->
\* Found, with found = true and created_new = false and without generating anything,
\* exactly when a provider scores above 0.8; otherwise it went Searching -> Synthesizing
\* and then either to Registered, with found = true and created_new = true, or to
\* SynthesisFailed, with both false.
C10_StateMachine ==
    \A c \in Callers :
        /\ pc[c] \in { "returned", "raised" } => result[c] # None
        /\ result[c] # None =>
              IF HasMatchingProvider(registry, Req(c))
              THEN /\ obs[c].stages = << "Searching", "Found" >>
                   /\ Res(c).found /\ ~Res(c).created_new
                   /\ adapter_code[c] = None /\ obs[c].wrote = 0
              ELSE \/ /\ obs[c].stages = << "Searching", "Synthesizing", "Registered" >>
                      /\ Res(c).found /\ Res(c).created_new
                   \/ /\ obs[c].stages = << "Searching", "Synthesizing", "SynthesisFailed" >>
                      /\ ~Res(c).found /\ ~Res(c).created_new

\* one call has returned an existing adapter and another a created adapter
C10_Witness ==
    \E c, d \in Callers :
        /\ Returned(c) /\ obs[c].stages = << "Searching", "Found" >>
        /\ Returned(d) /\ obs[d].stages = << "Searching", "Synthesizing", "Registered" >>

(***************************************************************************)
(* Properties of the matcher's thresholds                                  *)
(***************************************************************************)
\* the search of call c ended and the best score it saw was above 0.5 and at most 0.8
WeakMatch(c) ==
    /\ existing_result[c] # None
    /\ obs[c].best # None
    /\ obs[c].best[1] > FoundThreshold
    /\ obs[c].best[1] <= ReuseThreshold

\* C11 as stated: a call whose best score is above 0.5 and at most 0.8 returns the
\* existing record as found and creates nothing, and only a call whose best score is
\* at most 0.5 goes on to synthesis.
C11_WeakMatchReturned ==
    \A c \in Callers :
        /\ WeakMatch(c) /\ result[c] # None
              => /\ Res(c).found /\ ~Res(c).created_new
                 /\ Res(c).adapter_id # None /\ Res(c).adapter_id[1] \in RegistryIds
        /\ existing_result[c] # None /\ obs[c].best # None /\ Len(obs[c].stages) >= 2
              /\ obs[c].stages[2] = "Synthesizing"
              => obs[c].best[1] <= FoundThreshold

\* C11 amended: _search_existing_adapters reports the best record as found exactly when
\* its score is above 0.5, but discover_adapter returns it only above 0.8: with a best
\* score above 0.5 and at most 0.8 the search result is found with that score and a
\* registered id, and the call still goes on to synthesis and never returns that
\* record; with a best score of at most 0.5 the search result is not found and the
\* call goes on to synthesis as well.
C11_WeakMatchSynthesizes ==
    \A c \in Callers :
        existing_result[c] # None /\ obs[c].best # None =>
            LET existing == existing_result[c][1]
                best == obs[c].best[1]
            IN  /\ existing.found <=> best > FoundThreshold
                /\ existing.found =>
                      /\ existing.match_score = best
                      /\ existing.adapter_id[1] \in RegistryIds
                      /\ ~existing.created_new
                /\ best <= ReuseThreshold =>
                      /\ obs[c].stages[2] = "Synthesizing"
                      /\ result[c] # None =>
                            /\ result[c] # existing_result[c]
                            /\ Res(c).created_new \/ ~Res(c).found
                /\ best > ReuseThreshold =>
                      /\ obs[c].stages = << "Searching", "Found" >>
                      /\ result[c] = existing_result[c]

\* a call whose best score was above 0.5 and at most 0.8 has returned a created adapter
C11_Witness ==
    \E c \in Callers :
        /\ WeakMatch(c)
        /\ Returned(c)
        /\ existing_result[c][1].found
        /\ Res(c).created_new

(***************************************************************************)
(* The registry on its own: its constructor scans the files one by one,    *)
(* get_global_registry publishes it, and its callers list, search and get  *)
(***************************************************************************)
\* class TableMCP in core/table_mcp.py: the description and capability of CsvMCP, a
\* constructor that takes no keyword argument and a process that raises
TableClass ==
    [ name |-> "TableMCP", own |-> TRUE, doc |-> "parse csv",
      has_process |-> TRUE, has_get_capabilities |-> TRUE, has_validate_input |-> FALSE,
      methods |-> 2, ctor_ok |-> TRUE, ctor_kwargs_ok |-> FALSE, process_ok |-> FALSE,
      capabilities |-> << "csv" >> ]

TableFile ==
    [ dirs |-> << "core" >>, stem |-> "table_mcp", importable |-> TRUE,
      classes |-> << TableClass >> ]

\* class PlainMCP in plain_mcp.py: neither process nor get_capabilities
PlainClass ==
    [ name |-> "PlainMCP", own |-> TRUE, doc |-> "",
      has_process |-> FALSE, has_get_capabilities |-> FALSE, has_validate_input |-> FALSE,
      methods |-> 0, ctor_ok |-> TRUE, ctor_kwargs_ok |-> FALSE, process_ok |-> TRUE,
      capabilities |-> << >> ]

PlainFile ==
    [ dirs |-> << >>, stem |-> "plain_mcp", importable |-> TRUE,
      classes |-> << PlainClass >> ]

\* class StrictMCP in core/strict_mcp.py: both methods, and a constructor that needs
\* keyword arguments
StrictClass ==
    [ name |-> "StrictMCP", own |-> TRUE, doc |-> "analyze",
      has_process |-> TRUE, has_get_capabilities |-> TRUE, has_validate_input |-> TRUE,
      methods |-> 3, ctor_ok |-> FALSE, ctor_kwargs_ok |-> TRUE, process_ok |-> TRUE,
      capabilities |-> << "statistics" >> ]

StrictFile ==
    [ dirs |-> << "core" >>, stem |-> "strict_mcp", importable |-> TRUE,
      classes |-> << StrictClass >> ]

\* class Util in util_mcp.py: no method and no name that _is_mcp_adapter_class accepts
UtilClass ==
    [ name |-> "Util", own |-> TRUE, doc |-> "",
      has_process |-> FALSE, has_get_capabilities |-> FALSE, has_validate_input |-> FALSE,
      methods |-> 0, ctor_ok |-> TRUE, ctor_kwargs_ok |-> TRUE, process_ok |-> TRUE,
      capabilities |-> << >> ]

UtilFile ==
    [ dirs |-> << >>, stem |-> "util_mcp", importable |-> TRUE,
      classes |-> << UtilClass >> ]

\* broken_mcp.py: its import raises
BrokenFile ==
    [ dirs |-> << "core" >>, stem |-> "broken_mcp", importable |-> FALSE,
      classes |-> << StrictClass >> ]

\* ai_enhanced/notes_mcp.py: no class
NotesAiFile ==
    [ dirs |-> << "ai_enhanced" >>, stem |-> "notes_mcp", importable |-> TRUE,
      classes |-> << >> ]

\* the files of the adapters root in the order rglob gives them
RegistryTrees ==
    { << CsvFile, NotesFile >>,
      << TableFile, BrokenFile, CsvFile >>,
      << NotesAiFile, PlainFile, CsvFile, BrokenFile >>,
      << UtilFile, StrictFile, TableFile >> }

\* the name and the description of the record of notes_mcp.py, category "ai"
ReqNotes ==
    MakeRequirement("notes_mcp", NoDescription, << "notes" >>, TRUE, 1, "ai")

\* the requirements the registry is searched for
SearchRequirements == Requirements \cup { ReqNotes }

\* the categories list_adapters is called with; None is list_adapters()
ListCategories == { None, Some("core"), Some("integration"), Some("ai_enhanced") }

\* an id that no record has
UnknownId == << "n", "o", "n", "e" >>

\* one turn of the loop of _discover_adapters
DiscoverFile(reg, py_file) ==
    IF \/ StartsWith(Chars(py_file.stem), <<"_", "_">>)
       \/ py_file.stem \in { "base_mcp", "error_handler" }
    THEN reg
    ELSE RegisterAdapterFromFile(reg, py_file)

\* the log after that turn: _register_adapter_from_file reports a failed import with
\* logger.debug
DiscoverLog(log, py_file) ==
    IF \/ StartsWith(Chars(py_file.stem), <<"_", "_">>)
       \/ py_file.stem \in { "base_mcp", "error_handler" }
       \/ py_file.importable
    THEN log
    ELSE Append(log, [ level |-> "DEBUG", event |-> "import_failed", file |-> py_file.stem ])

\* the line __init__ logs when _discover_adapters has returned
InitializedLine(reg) ==
    [ level |-> "INFO", event |-> "initialized", registered |-> Len(reg.adapters) ]

\* the registry is handed out while its constructor still scans
ConstructedOrScanning(s) == s.todo = << >> \/ s.reg # None

\* UnifiedAdapterRegistry(): the constructor has returned
Constructed(s) == s.todo = << >>

RECURSIVE ListCategoryFrom(_, _, _)
\* the loop of list_adapters(category) over the records from position i
ListCategoryFrom(reg, category, i) ==
    IF i > Len(reg.adapters) THEN << >>
    ELSE LET adapter_info == reg.adapters[i].info
             rest == ListCategoryFrom(reg, category, i + 1)
         IN  IF category # None /\ category[1] # "" /\ adapter_info.category # category[1]
             THEN rest
             ELSE << AdapterEntry(reg, reg.adapters[i].id, adapter_info) >> \o rest

\* list_adapters(category)
ListAdaptersOf(reg, category) == SortAdapters(ListCategoryFrom(reg, category, 1))

RegistryInit ==
    /\ registry = None
    /\ files = << >>
    /\ discovery_history = << >>
    /\ history_file = [ state |-> "absent", records |-> << >> ]
    /\ disk = "ok"
    /\ pc = [ c \in Callers |-> "idle" ]
    /\ requirement = [ c \in Callers |-> None ]
    /\ adapter_code = [ c \in Callers |-> None ]
    /\ adapter_path = [ c \in Callers |-> None ]
    /\ existing_result = [ c \in Callers |-> None ]
    /\ result = [ c \in Callers |-> None ]
    /\ obs = [ c \in Callers |-> NoObs ]
    /\ \E tree \in RegistryTrees :
          scan = [ tree |-> tree, todo |-> tree,
                   reg |-> Some([ adapters |-> << >>, metadata |-> << >>, clock |-> 1 ]),
                   log |-> << >> ]
    /\ adapter_instances = << >>
    /\ reply = None
    /\ heap = << >>
    /\ global_registry = None
    /\ threads = [ t \in Threads |-> NoThread ]

\* the variables of discover_adapter
discoveryvars ==
    << files, discovery_history, history_file, disk, pc, requirement, adapter_code,
       adapter_path, existing_result, result, obs >>

\* the loop without its try: a file that fails to load ends the scan
ScanFileAborting ==
    /\ scan.todo # << >>
    /\ scan' = [ scan EXCEPT !.todo = IF Head(scan.todo).importable THEN Tail(@) ELSE << >>,
                             !.reg = Some(DiscoverFile(@[1], Head(scan.todo))),
                             !.log = DiscoverLog(@, Head(scan.todo)) ]
    /\ UNCHANGED << registry, adapter_instances, reply, discoveryvars, procvars >>

\* _discover_adapters: the next file of the tree
ScanFile ==
    /\ scan.todo # << >>
    /\ scan' = [ scan EXCEPT !.todo = Tail(@),
                             !.reg = Some(DiscoverFile(@[1], Head(scan.todo))),
                             !.log = DiscoverLog(@, Head(scan.todo)) ]
    /\ UNCHANGED << registry, adapter_instances, reply, discoveryvars, procvars >>

\* get_global_registry: _global_registry is assigned when the constructor has returned
GetGlobalRegistry ==
    /\ registry = None
    /\ Constructed(scan)
    /\ registry' = scan.reg
    /\ scan' = [ scan EXCEPT !.log = Append(@, InitializedLine(scan.reg[1])) ]
    /\ UNCHANGED << adapter_instances, reply, discoveryvars, procvars >>

\* a caller lists the adapters, of a category or all
CallListAdapters(category) ==
    /\ registry # None
    /\ reply' = Some([ op |-> "list_adapters", category |-> category,
                       adapters |-> ListAdaptersOf(registry[1], category) ])
    /\ UNCHANGED << registry, scan, adapter_instances, discoveryvars, procvars >>

\* the matcher searches the registry for a requirement
CallSearch(r) ==
    /\ registry # None
    /\ LET adapters == ListAdapters(registry[1])
       IN  reply' = Some([ op |-> "search", requirement |-> r, adapters |-> adapters,
                           scores |-> ScoresFrom(r, adapters, 1),
                           result |-> SearchExistingAdapters(registry, r) ])
    /\ UNCHANGED << registry, scan, adapter_instances, discoveryvars, procvars >>

\* adapter_class(**kwargs): None is not callable, and a constructor may refuse its
\* arguments
ConstructRaises(adapter_class, kwargs) ==
    \/ adapter_class = None
    \/ IF kwargs THEN ~adapter_class[1].ctor_kwargs_ok ELSE ~adapter_class[1].ctor_ok

\* the instance is returned and not kept
CacheInstanceNot(instances, adapter_id, instance) == instances

\* self.adapter_instances[adapter_id] = instance
CacheInstance(instances, adapter_id, instance) == DictPut(instances, adapter_id, instance)

\* get_adapter(adapter_id, **kwargs)
CallGetAdapter(adapter_id, kwargs) ==
    /\ registry # None
    /\ LET call == [ op |-> "get_adapter", adapter_id |-> adapter_id, kwargs |-> kwargs,
                     cached |-> IF DictHas(adapter_instances, adapter_id)
                                THEN Some(DictGet(adapter_instances, adapter_id))
                                ELSE None,
                     made |-> Len(adapter_instances) ]
       IN  IF ~DictHas(registry[1].adapters, adapter_id)
           THEN /\ reply' = Some(call @@ [ raised |-> "ValueError", instance |-> None ])
                /\ adapter_instances' = adapter_instances
           ELSE IF DictHas(adapter_instances, adapter_id)
           THEN /\ reply' = Some(call @@ [ raised |-> "",
                                           instance |-> Some(DictGet(adapter_instances, adapter_id)) ])
                /\ adapter_instances' = adapter_instances
           ELSE LET adapter_class == DictGet(registry[1].adapters, adapter_id).class
                IN  IF ConstructRaises(adapter_class, kwargs)
                    THEN /\ reply' = Some(call @@ [ raised |-> "Exception", instance |-> None ])
                         /\ adapter_instances' = adapter_instances
                    ELSE LET instance == [ class |-> adapter_class[1].name,
                                           kwargs |-> kwargs,
                                           serial |-> Len(adapter_instances) + 1 ]
                         IN  /\ adapter_instances' =
                                    CacheInstance(adapter_instances, adapter_id, instance)
                             /\ reply' = Some(call @@ [ raised |-> "",
                                                        instance |-> Some(instance) ])
    /\ UNCHANGED << registry, scan, discoveryvars, procvars >>

\* the keys get_adapter_info reads of a record; a record without one raises KeyError
GetAdapterInfoRaises(reg, adapter_id) ==
    \/ ~DictHas(reg.adapters, adapter_id)
    \/ ~ ({ "name", "category", "file_path", "module_path", "registered_at" }
            \subseteq DOMAIN DictGet(reg.adapters, adapter_id))

\* get_adapter_info(adapter_id) where it does not raise
GetAdapterInfo(reg, instances, adapter_id) ==
    LET adapter_info == DictGet(reg.adapters, adapter_id)
        has_meta == DictHas(reg.metadata, adapter_id)
        metadata == DictGet(reg.metadata, adapter_id)
    IN  [ id |-> adapter_id,
          name |-> adapter_info.name,
          category |-> adapter_info.category,
          category_name |-> CategoryName(adapter_info.category),
          description |-> IF has_meta THEN metadata.description ELSE NoDescription,
          capabilities |-> IF has_meta THEN metadata.capabilities ELSE << >>,
          methods |-> IF has_meta THEN metadata.methods ELSE 0,
          file_path |-> adapter_info.file_path,
          module_path |-> adapter_info.module_path,
          registered_at |-> adapter_info.registered_at,
          has_instance |-> DictHas(instances, adapter_id) ]

\* a caller fetches a record by its id
CallGetAdapterInfo(adapter_id) ==
    /\ registry # None
    /\ reply' = Some([ op |-> "get_adapter_info", adapter_id |-> adapter_id,
                       raised |-> IF ~DictHas(registry[1].adapters, adapter_id)
                                  THEN "ValueError"
                                  ELSE IF GetAdapterInfoRaises(registry[1], adapter_id)
                                  THEN "KeyError" ELSE "",
                       info |-> IF GetAdapterInfoRaises(registry[1], adapter_id) THEN None
                                ELSE Some(GetAdapterInfo(registry[1], adapter_instances,
                                                         adapter_id)) ])
    /\ UNCHANGED << registry, scan, adapter_instances, discoveryvars, procvars >>

\* get_adapter(adapter_id, **kwargs) as a function of the tables: the exception it
\* raises or "", the instance it returns and the instance cache it leaves
GetAdapter(reg, instances, adapter_id, kwargs) ==
    IF ~DictHas(reg.adapters, adapter_id)
    THEN [ raised |-> "ValueError", instance |-> None, instances |-> instances ]
    ELSE IF DictHas(instances, adapter_id)
    THEN [ raised |-> "", instance |-> Some(DictGet(instances, adapter_id)),
           instances |-> instances ]
    ELSE LET adapter_class == DictGet(reg.adapters, adapter_id).class
         IN  IF ConstructRaises(adapter_class, kwargs)
             THEN [ raised |-> "Exception", instance |-> None, instances |-> instances ]
             ELSE LET instance == [ class |-> adapter_class[1].name, kwargs |-> kwargs,
                                    serial |-> Len(instances) + 1 ]
                  IN  [ raised |-> "", instance |-> Some(instance),
                        instances |-> CacheInstance(instances, adapter_id, instance) ]

\* an error result of execute_adapter
ErrorResult(adapter_id, error) ==
    [ status |-> "error", adapter_id |-> adapter_id, error |-> error ]

\* execute_adapter without its try: what get_adapter, the test for process and the
\* call of process raise leaves execute_adapter
ExecuteAdapterUncaught(reg, instances, adapter_id, kwargs) ==
    LET got == GetAdapter(reg, instances, adapter_id, kwargs)
        adapter_class == DictGet(reg.adapters, adapter_id).class[1]
    IN  IF got.raised # ""
        THEN [ raised |-> got.raised, result |-> None, instances |-> got.instances ]
        ELSE IF ~adapter_class.has_process
        THEN [ raised |-> "ValueError", result |-> None, instances |-> got.instances ]
        ELSE IF ~adapter_class.process_ok
        THEN [ raised |-> "Exception", result |-> None, instances |-> got.instances ]
        ELSE [ raised |-> "",
               result |-> Some([ status |-> "success", adapter_id |-> adapter_id ]),
               instances |-> got.instances ]

\* execute_adapter(adapter_id, input_data, **kwargs): every Exception of get_adapter,
\* of the test for process and of adapter.process(input_data) is caught and returned
\* as an error result. The errors are Exceptions: what derives from BaseException
\* alone (KeyboardInterrupt, SystemExit) is no failure of a provider.
ExecuteAdapter(reg, instances, adapter_id, kwargs) ==
    LET got == GetAdapter(reg, instances, adapter_id, kwargs)
        adapter_class == DictGet(reg.adapters, adapter_id).class[1]
    IN  IF got.raised # ""
        THEN [ raised |-> "", result |-> Some(ErrorResult(adapter_id, got.raised)),
               instances |-> got.instances ]
        ELSE IF ~adapter_class.has_process
        THEN [ raised |-> "", result |-> Some(ErrorResult(adapter_id, "ValueError")),
               instances |-> got.instances ]
        ELSE IF ~adapter_class.process_ok
        THEN [ raised |-> "", result |-> Some(ErrorResult(adapter_id, "Exception")),
               instances |-> got.instances ]
        ELSE [ raised |-> "",
               result |-> Some([ status |-> "success", adapter_id |-> adapter_id ]),
               instances |-> got.instances ]

\* a caller executes an adapter
CallExecuteAdapter(adapter_id, kwargs) ==
    /\ registry # None
    /\ LET done == ExecuteAdapter(registry[1], adapter_instances, adapter_id, kwargs)
       IN  /\ adapter_instances' = done.instances
           /\ reply' = Some([ op |-> "execute_adapter", adapter_id |-> adapter_id,
                              kwargs |-> kwargs, before |-> adapter_instances,
                              raised |-> done.raised, result |-> done.result ])
    /\ UNCHANGED << registry, scan, discoveryvars, procvars >>

RegistryNext ==
    \/ ScanFile
    \/ GetGlobalRegistry
    \/ \E category \in ListCategories : CallListAdapters(category)
    \/ \E r \in SearchRequirements : CallSearch(r)
    \/ \E adapter_id \in DictKeys(scan.reg[1].adapters) \cup { UnknownId }, kwargs \in BOOLEAN :
          CallGetAdapter(adapter_id, kwargs)
    \/ \E adapter_id \in DictKeys(scan.reg[1].adapters) \cup { UnknownId } :
          CallGetAdapterInfo(adapter_id)
    \/ \E adapter_id \in DictKeys(scan.reg[1].adapters) \cup { UnknownId }, kwargs \in BOOLEAN :
          CallExecuteAdapter(adapter_id, kwargs)

RegistrySpec == RegistryInit /\ [][RegistryNext]_vars


(***************************************************************************)
(* Properties of the match score                                           *)
(***************************************************************************)
\* the search the registry answered last
Searched == reply # None /\ reply[1].op = "search"

\* the Jaccard similarity, in 1/60, of the lower-case words of two texts
TokenJaccard(a, b) ==
    LET wa == Words(LowerStr(a))
        wb == Words(LowerStr(b))
    IN  IF wa = {} \/ wb = {} THEN 0
        ELSE (60 * Cardinality(wa \cap wb)) \div Cardinality(wa \cup wb)

\* 0.1, in 1/600, when the category of the requirement is part of the display name of
\* the category of the record
CategoryBonus(req, adapter) ==
    IF IsSubstr(Lower(Chars(req.category)), Lower(Chars(adapter.category_name)))
    THEN 60 ELSE 0

\* the tags of the requirement that are tags of the record, over the tags of the
\* requirement, in 1/60
ExactTagOverlap(req, adapter) ==
    IF req.capabilities = << >> THEN 0
    ELSE (60 * Cardinality(RangeOf(req.capabilities) \cap RangeOf(adapter.capabilities)))
            \div Len(req.capabilities)

\* the tags of the requirement that, in lower case, are part of a tag of the record or
\* have a tag of the record as a part, over the tags of the requirement, in 1/60; 0 for
\* a record without tags
SubstringTagOverlap(req, adapter) ==
    IF adapter.capabilities = << >> THEN 0 ELSE
    LET part(a, b) == IsSubstr(Lower(Chars(a)), Lower(Chars(b)))
        hits == { i \in 1..Len(req.capabilities) :
                    \E tag \in RangeOf(adapter.capabilities) :
                        part(req.capabilities[i], tag) \/ part(tag, req.capabilities[i]) }
    IN  (60 * Cardinality(hits)) \div Len(req.capabilities)

\* C12 as stated: every score a search computes is 0.3 nameSim + 0.2 descSim
\* + 0.4 tagOverlapRatio + 0.1 categoryBonus, the similarities being token-Jaccard and
\* tagOverlapRatio the share of the requirement's tags that are tags of the record.
C12_ExactTagOverlap ==
    Searched =>
        \A i \in 1..Len(reply[1].scores) :
            LET req == reply[1].requirement
                adapter == reply[1].adapters[i]
            IN  reply[1].scores[i] =
                    3 * TokenJaccard(req.name, adapter.name)
                    + 2 * TokenJaccard(req.description, adapter.description)
                    + 4 * ExactTagOverlap(req, adapter)
                    + CategoryBonus(req, adapter)

\* C12 amended: every score a search computes is 0.3 nameSim + 0.2 descSim
\* + 0.4 tagOverlapRatio + 0.1 categoryBonus, the similarities being token-Jaccard of
\* the lower-case texts and tagOverlapRatio the share of the requirement's tags that,
\* in lower case, contain a tag of the record or are contained in one, and 0 for a
\* record without tags.
C12_SubstringTagOverlap ==
    Searched =>
        \A i \in 1..Len(reply[1].scores) :
            LET req == reply[1].requirement
                adapter == reply[1].adapters[i]
            IN  reply[1].scores[i] =
                    3 * TokenJaccard(req.name, adapter.name)
                    + 2 * TokenJaccard(req.description, adapter.description)
                    + 4 * SubstringTagOverlap(req, adapter)
                    + CategoryBonus(req, adapter)

\* a search has scored a record one of whose tags is a part of a tag of the requirement
\* and is none of the requirement's tags
C12_Witness ==
    /\ Searched
    /\ \E i \in 1..Len(reply[1].scores) :
          /\ ExactTagOverlap(reply[1].requirement, reply[1].adapters[i]) = 0
          /\ SubstringTagOverlap(reply[1].requirement, reply[1].adapters[i]) > 0
          /\ reply[1].scores[i] > 0

\* C13: every score the search of a call computes, and the match_score of the result of
\* its search and of the result it returns, is at least 0 and at most 1.
C13_ScoreInUnitInterval ==
    \A c \in Callers :
        /\ \A i \in 1..Len(obs[c].scores) :
              obs[c].scores[i] >= 0 /\ obs[c].scores[i] <= 600
        /\ existing_result[c] # None =>
              existing_result[c][1].match_score >= 0 /\ existing_result[c][1].match_score <= 600
        /\ result[c] # None => Res(c).match_score >= 0 /\ Res(c).match_score <= 600

\* one call has returned an existing adapter with a score between 0 and 1, and
\* another, whose requirement has a capability, a created adapter after its search
\* computed a score above 0
C13_Witness ==
    \E c, d \in Callers :
        /\ Returned(c) /\ ~Res(c).created_new
        /\ Res(c).match_score > 0 /\ Res(c).match_score < 600
        /\ Returned(d) /\ Res(d).created_new
        /\ Req(d).capabilities # << >>
        /\ \E i \in 1..Len(obs[d].scores) : obs[d].scores[i] > 0

\* the record of the id was registered from a file name, without a class
IsFileOnly(reg, adapter_id) ==
    /\ DictHas(reg.adapters, adapter_id)
    /\ DictGet(reg.adapters, adapter_id).class = None

\* C14: a search scores no record that was registered from a file name alone, and the
\* adapter it returns as found is never such a record.
C14_FileOnlyNotMatched ==
    Searched =>
        /\ \A i \in 1..Len(reply[1].scores) :
              ~IsFileOnly(registry[1], reply[1].adapters[i].id)
        /\ reply[1].result.found =>
              ~IsFileOnly(registry[1], reply[1].result.adapter_id[1])

(***************************************************************************)
(* Properties of the best-match search and of list_adapters                *)
(***************************************************************************)
\* the positions of the adapters of the last search that have its highest score
TopScorers ==
    { i \in 1..Len(reply[1].scores) :
        \A j \in 1..Len(reply[1].scores) : reply[1].scores[j] <= reply[1].scores[i] }

\* the last search scored every adapter and returned one as found
SearchFound ==
    /\ Searched
    /\ Len(reply[1].scores) = Len(reply[1].adapters)
    /\ reply[1].result.found

\* C15 as stated: the adapter a search returns has the highest score, and of the
\* adapters with the highest score it is the one registered first.
C15_EarliestRegisteredWins ==
    SearchFound =>
        \E i \in TopScorers :
            /\ reply[1].result.adapter_id = Some(reply[1].adapters[i].id)
            /\ reply[1].result.match_score = reply[1].scores[i]
            /\ \A j \in TopScorers :
                  reply[1].adapters[i].registered_at <= reply[1].adapters[j].registered_at

\* C15 amended: the adapter a search returns has the highest score, and of the adapters
\* with the highest score it is the first one of list_adapters(), which is ordered by
\* category and then name.
C15_FirstListedWins ==
    SearchFound =>
        \E i \in TopScorers :
            /\ reply[1].result.adapter_id = Some(reply[1].adapters[i].id)
            /\ reply[1].result.match_score = reply[1].scores[i]
            /\ \A j \in TopScorers :
                  /\ i <= j
                  /\ i # j =>
                        \/ StrLess(Chars(reply[1].adapters[i].category),
                                   Chars(reply[1].adapters[j].category))
                        \/ /\ reply[1].adapters[i].category = reply[1].adapters[j].category
                           /\ StrLess(Chars(reply[1].adapters[i].name),
                                      Chars(reply[1].adapters[j].name))

\* a search has returned one of two adapters with the highest score, the one that was
\* registered later
C15_Witness ==
    /\ SearchFound
    /\ \E i, j \in TopScorers :
          /\ i # j
          /\ reply[1].result.adapter_id = Some(reply[1].adapters[i].id)
          /\ reply[1].adapters[j].registered_at < reply[1].adapters[i].registered_at

(***************************************************************************)
(* Properties of the scan                                                  *)
(***************************************************************************)
\* the files of the tree the scan tries to load
ScannedFiles ==
    { i \in 1..Len(scan.tree) :
        /\ ~StartsWith(Chars(scan.tree[i].stem), <<"_", "_">>)
        /\ scan.tree[i].stem \notin { "base_mcp", "error_handler" } }

\* the ids a file that loads is registered under: those of its adapter classes, or
\* that of its name when it has none and is named *_mcp
IdsOfFile(file) ==
    LET classes == { i \in 1..Len(file.classes) : IsMcpAdapterClass(file.classes[i]) }
    IN  IF classes # {}
        THEN { Lower(Chars(file.classes[i].name)) : i \in classes }
        ELSE IF EndsWith(Chars(file.stem), <<"_", "m", "c", "p">>)
        THEN { Lower(Chars(file.stem)) }
        ELSE {}

\* the scan is over and the registry is published
ScanDone == registry # None /\ Constructed(scan)

\* every file that loads is registered and no file that fails to load is
AllLoadableRegistered ==
    DictKeys(registry[1].adapters) =
        UNION { IdsOfFile(scan.tree[i]) : i \in { j \in ScannedFiles : scan.tree[j].importable } }

\* the summary of the scan: the line __init__ logs last
ScanSummary == scan.log[Len(scan.log)]

\* the files of the tree that fail to load
FailedFiles == { i \in ScannedFiles : ~scan.tree[i].importable }

ScanIds ==
    UNION { IdsOfFile(scan.tree[i]) : i \in { j \in ScannedFiles : scan.tree[j].importable } }

\* the ids of the adapters of a list
IdsOfList(adapters) == { adapters[i].id : i \in 1..Len(adapters) }

\* C17: no caller of the registry sees a part of a scan: a caller has an answer only
\* from a registry whose scan is over, every list_adapters() and every search has all
\* the records of the scan, and get_adapter knows every id of the scan.
C17_ScanPublishedWhole ==
    /\ registry # None => DictKeys(registry[1].adapters) = ScanIds
    /\ reply # None =>
          /\ scan.todo = << >>
          /\ reply[1].op = "list_adapters" /\ reply[1].category = None
                => IdsOfList(reply[1].adapters) = ScanIds
          /\ reply[1].op = "search" => IdsOfList(reply[1].adapters) = ScanIds
          /\ reply[1].op = "get_adapter" /\ reply[1].adapter_id \in ScanIds
                => reply[1].raised # "ValueError"

\* a caller has listed the records of a scan of several files
C17_Witness ==
    /\ reply # None
    /\ reply[1].op = "list_adapters" /\ reply[1].category = None
    /\ Len(scan.tree) >= 3
    /\ Len(reply[1].adapters) >= 2

\* the records of the registry that have a class
ActiveRecords ==
    { i \in 1..Len(registry[1].adapters) : registry[1].adapters[i].info.class # None }

\* the files of the tree that load
LoadedFiles == { i \in ScannedFiles : scan.tree[i].importable }

TakenForAdapter(cls) ==
    /\ cls.own
    /\ \/ cls.has_process
       \/ cls.has_get_capabilities
       \/ \E part \in { <<"m", "c", "p">>, <<"a", "d", "a", "p", "t", "e", "r">>,
                        <<"e", "n", "g", "i", "n", "e">>, <<"c", "o", "r", "e">>,
                        <<"m", "a", "n", "a", "g", "e", "r">> } :
             IsSubstr(part, Lower(Chars(cls.name)))

Listed == reply # None /\ reply[1].op = "list_adapters"

\* the ids of the records list_adapters(category) is to return
MatchingIds(category) ==
    { registry[1].adapters[i].id : i \in
        { j \in 1..Len(registry[1].adapters) :
            \/ category = None
            \/ category[1] = ""
            \/ registry[1].adapters[j].info.category = category[1] } }

\* C19 as stated: list_adapters, with a category or without, returns the matching
\* records, and a record registered earlier precedes a record registered later.
C19_RegistrationOrder ==
    Listed =>
        /\ IdsOfList(reply[1].adapters) = MatchingIds(reply[1].category)
        /\ \A i, j \in 1..Len(reply[1].adapters) :
              i < j => reply[1].adapters[i].registered_at <= reply[1].adapters[j].registered_at

\* C19 amended: list_adapters, with a category or without, returns the matching
\* records, each once, ordered by category and then by name, whatever the order of
\* their registration.
C19_CategoryNameOrder ==
    Listed =>
        /\ IdsOfList(reply[1].adapters) = MatchingIds(reply[1].category)
        /\ Len(reply[1].adapters) = Cardinality(MatchingIds(reply[1].category))
        /\ \A i, j \in 1..Len(reply[1].adapters) :
              i < j =>
                 \/ StrLess(Chars(reply[1].adapters[i].category),
                            Chars(reply[1].adapters[j].category))
                 \/ /\ reply[1].adapters[i].category = reply[1].adapters[j].category
                    /\ StrLess(Chars(reply[1].adapters[i].name),
                               Chars(reply[1].adapters[j].name))

\* a list has a record before one that was registered earlier
C19_Witness ==
    /\ Listed
    /\ \E i, j \in 1..Len(reply[1].adapters) :
          /\ i < j
          /\ reply[1].adapters[j].registered_at < reply[1].adapters[i].registered_at

(***************************************************************************)
(* Properties of get_adapter                                               *)
(***************************************************************************)
\* the registry answered get_adapter last
Got == reply # None /\ reply[1].op = "get_adapter"

\* C20: get_adapter constructs an instance only when none is kept for the id, keeps the
\* one it constructed and returns the kept one on every later call, whatever the
\* arguments; a call that raises, as every call for a record without a class does,
\* returns nothing and keeps nothing for the id.
C20_InstanceCachedOnce ==
    /\ \A k \in 1..Len(adapter_instances) :
          /\ adapter_instances[k].info.serial = k
          /\ DictHas(registry[1].adapters, adapter_instances[k].id)
    /\ Got =>
          LET call == reply[1]
          IN  /\ call.cached # None =>
                    /\ call.raised = ""
                    /\ call.instance = call.cached
                    /\ Len(adapter_instances) = call.made
                    /\ DictGet(adapter_instances, call.adapter_id) = call.cached[1]
              /\ call.cached = None /\ call.raised = "" =>
                    /\ call.instance # None
                    /\ Len(adapter_instances) = call.made + 1
                    /\ DictGet(adapter_instances, call.adapter_id) = call.instance[1]
              /\ call.raised # "" =>
                    /\ call.cached = None
                    /\ call.instance = None
                    /\ Len(adapter_instances) = call.made
                    /\ ~DictHas(adapter_instances, call.adapter_id)
              /\ IsFileOnly(registry[1], call.adapter_id) => call.raised # ""

\* a later call, with other arguments, has returned the instance an earlier call
\* constructed, in a registry where a call for another id had raised
C20_Witness ==
    /\ Got
    /\ reply[1].cached # None
    /\ reply[1].instance = reply[1].cached
    /\ reply[1].kwargs # reply[1].cached[1].kwargs
    /\ \E i \in 1..Len(registry[1].adapters) :
          /\ registry[1].adapters[i].info.class = None
          /\ ~DictHas(adapter_instances, registry[1].adapters[i].id)

(***************************************************************************)
(* The generated unit, and one discovery system after another on the same  *)
(* project root                                                            *)
(***************************************************************************)
\* the methods the class {class_name} of a template defines
TemplateMethods(template) ==
    IF template = "basic_mcp_adapter"
    THEN { "__init__", "process", "_execute_main_logic", "validate_input",
           "get_capabilities", "get_tool_info" }
    ELSE { "__init__", "_register_default_tools", "execute_tool", "_process_data_tool",
           "_analyze_input_tool", "_generate_output_tool", "_validate_result_tool",
           "_update_metrics", "get_metrics", "register_custom_tool", "list_tools",
           "get_tool_info" }

\* mcptool/adapters/base_mcp.py is no file of the sources: the import at the head of a
\* template raises ImportError and the unit defines BaseMCP itself, with these methods
FallbackBaseMethods(template) ==
    IF template = "basic_mcp_adapter"
    THEN { "__init__", "process", "validate_input", "get_capabilities" }
    ELSE { "__init__" }

\* what hasattr finds on the generated class: its own methods and the inherited ones
ExposedMethods(template) == TemplateMethods(template) \cup FallbackBaseMethods(template)

\* the methods whose name starts with "_"
PrivateMethods ==
    { "__init__", "_execute_main_logic", "_register_default_tools", "_process_data_tool",
      "_analyze_input_tool", "_generate_output_tool", "_validate_result_tool",
      "_update_metrics" }

\* the string of the model that has these characters
StrOf(chars) == CHOOSE s \in Strings : Chars(s) = chars

\* the docstring of the generated class
GeneratedDoc(code) ==
    StrOf((IF code.template = "basic_mcp_adapter" THEN << >> ELSE << "U9AD8", "U7D1A" >>)
          \o << "U81EA", "U52D5", "U751F", "U6210", "U7684" >> \o Chars(code.name)
          \o << "U9069", "U914D", "U5668" >>)

\* the class {class_name} of a generated unit, as a scan of the registry finds it
GeneratedClass(code) ==
    LET exposed == ExposedMethods(code.template)
    IN  [ name |-> StrOf(code.class_name), own |-> TRUE, doc |-> GeneratedDoc(code),
          has_process |-> "process" \in exposed,
          has_get_capabilities |-> "get_capabilities" \in exposed,
          has_validate_input |-> "validate_input" \in exposed,
          methods |-> Cardinality(exposed \ PrivateMethods),
          ctor_ok |-> TRUE, ctor_kwargs_ok |-> TRUE, process_ok |-> TRUE,
          capabilities |-> code.capabilities ]

\* the class BaseMCP of a generated unit
FallbackBaseClass(code) ==
    LET exposed == FallbackBaseMethods(code.template)
    IN  [ name |-> "BaseMCP", own |-> TRUE, doc |-> "",
          has_process |-> "process" \in exposed,
          has_get_capabilities |-> "get_capabilities" \in exposed,
          has_validate_input |-> "validate_input" \in exposed,
          methods |-> Cardinality(exposed \ PrivateMethods),
          ctor_ok |-> TRUE, ctor_kwargs_ok |-> TRUE, process_ok |-> FALSE,
          capabilities |-> IF "get_capabilities" \in exposed
                           THEN << "U57FAU790EMCPU9069U914DU529FU80FD" >> ELSE << >> ]

\* a file of generated_dir as the scan of the registry reads it: an empty file is a
\* module without a class, a source that does not compile fails to import, and
\* inspect.getmembers gives the classes in the order of their names
GeneratedFile(path, content) ==
    [ dirs |-> << "generated" >>,
      stem |-> StrOf(SubSeq(path, 1, Len(path) - 3)),
      importable |-> content = None \/ ValidSource(content[1]),
      classes |-> IF content = None THEN << >>
                  ELSE << FallbackBaseClass(content[1]), GeneratedClass(content[1]) >> ]

RECURSIVE GeneratedFiles(_, _)
\* the files of generated_dir in the order of their names
GeneratedFiles(fs, paths) ==
    IF paths = {} THEN << >>
    ELSE LET first == CHOOSE p \in paths : \A q \in paths : q = p \/ StrLess(p, q)
         IN  << GeneratedFile(first, fs[first]) >> \o GeneratedFiles(fs, paths \ { first })

\* "CSV Analyzer" with the tags csv_parsing and statistics
ReqCsvAnalyzer ==
    MakeRequirement("CSV Analyzer", "analyze", << "csv_parsing", "statistics" >>,
                    TRUE, 3, "general")

\* three capabilities and priority 5
ReqThreeTags ==
    MakeRequirement("plot", "analyze", << "csv", "statistics", "chart" >>, TRUE, 5, "general")

\* four capabilities and priority 5
ReqFourTags ==
    MakeRequirement("plot", "analyze", << "csv", "statistics", "chart", "notes" >>,
                    TRUE, 5, "general")

\* one capability and priority 6
ReqUrgent ==
    MakeRequirement("CSV Analyzer", "analyze", << "csv" >>, TRUE, 6, "general")

\* four capabilities and priority 10
ReqFourTagsUrgent ==
    MakeRequirement("plot", "analyze", << "csv", "statistics", "chart", "notes" >>,
                    TRUE, 10, "general")

\* the requirements a discovery system is asked for
SessionRequirements ==
    { ReqReuse, ReqAnalyzer, ReqCsvAnalyzer, ReqThreeTags, ReqFourTags, ReqUrgent,
      ReqFourTagsUrgent, ReqBadSchema }

\* a registry whose tables hold one record written into them directly, as the startup
\* script writes its records: the provider "Data Analyzer" with the tags csv_parsing
\* and chart_generation
DataAnalyzerRegistry ==
    [ adapters |-> << [ id |-> << "d", "a", "t", "a", "_", "a", "n", "a", "l", "y", "z", "e", "r" >>,
                        info |-> [ name |-> "Data Analyzer",
                                   class |-> None,
                                   category |-> "integration",
                                   file_path |-> << "data_analyzer" >>,
                                   module_path |-> << "data_analyzer" >>,
                                   registered_at |-> 1 ] ] >>,
      metadata |-> << [ id |-> << "d", "a", "t", "a", "_", "a", "n", "a", "l", "y", "z", "e", "r" >>,
                        info |-> [ description |-> NoDescription,
                                   capabilities |-> << "csv_parsing", "chart_generation" >>,
                                   methods |-> 2,
                                   has_process |-> TRUE,
                                   has_validate_input |-> FALSE,
                                   has_get_capabilities |-> TRUE ] ] >>,
      clock |-> 2 ]

\* the files under the adapters root when the first discovery system is constructed
SessionTrees == { << CsvFile, NotesFile >>, << >> }

SessionInit ==
    /\ \E tree \in SessionTrees :
          /\ scan = [ NoScan EXCEPT !.tree = tree ]
          /\ registry \in { None, Some(NewRegistry(tree)) }
                            \cup (IF tree = << >> THEN { Some(DataAnalyzerRegistry) } ELSE {})
    /\ files = << >>
    /\ discovery_history = << >>
    /\ history_file = [ state |-> "absent", records |-> << >> ]
    /\ disk \in Disks
    /\ pc = [ c \in Callers |-> "idle" ]
    /\ requirement = [ c \in Callers |-> None ]
    /\ adapter_code = [ c \in Callers |-> None ]
    /\ adapter_path = [ c \in Callers |-> None ]
    /\ existing_result = [ c \in Callers |-> None ]
    /\ result = [ c \in Callers |-> None ]
    /\ obs = [ c \in Callers |-> NoObs ]
    /\ adapter_instances = << >>
    /\ reply = None
    /\ heap = << >>
    /\ global_registry = None
    /\ threads = [ t \in Threads |-> NoThread ]

\* DynamicAdapterDiscovery(project_root) once more on the same project root, when the
\* call of the system before has ended: _initialize_registry constructs a registry,
\* whose scan now finds the files of generated_dir after the others, or fails as it
\* failed before, and the history starts empty; the files on the disk stay
NewSystem ==
    /\ pc[1] \in { "returned", "raised" }
    /\ registry' = IF registry = None THEN None
                   ELSE Some(NewRegistry(scan.tree \o GeneratedFiles(files, DOMAIN files)))
    /\ discovery_history' = << >>
    /\ pc' = [ c \in Callers |-> "idle" ]
    /\ requirement' = [ c \in Callers |-> None ]
    /\ adapter_code' = [ c \in Callers |-> None ]
    /\ adapter_path' = [ c \in Callers |-> None ]
    /\ existing_result' = [ c \in Callers |-> None ]
    /\ result' = [ c \in Callers |-> None ]
    /\ obs' = [ c \in Callers |-> NoObs ]
    /\ adapter_instances' = << >>
    /\ reply' = None
    /\ UNCHANGED << files, history_file, disk, scan, procvars >>

\* the caller fetches the record of the adapter its call returned, by the id of the
\* result
FetchReturned(c) ==
    /\ Returned(c)
    /\ Res(c).found
    /\ CallGetAdapterInfo(Res(c).adapter_id[1])

\* one caller at a time
SessionNext ==
    \/ \E r \in SessionRequirements : Discover(1, r)
    \/ CreateFile(1)
    \/ WriteFile(1)
    \/ LoadAndRegister(1)
    \/ RecordDiscovery(1)
    \/ FetchReturned(1)
    \/ NewSystem

SessionSpec == SessionInit /\ [][SessionNext]_vars

(***************************************************************************)
(* Properties of the generated unit                                        *)
(***************************************************************************)
\* the calls that have rendered their source
Rendered == { c \in Callers : adapter_code[c] # None }

\* C21: for every requirement, whichever template is selected, the generated unit
\* exposes the three accessors process, get_capabilities and get_tool_info.
C21_ThreeAccessors ==
    \A c \in Rendered :
        { "process", "get_capabilities", "get_tool_info" }
            \subseteq ExposedMethods(adapter_code[c][1].template)

\* C27: the basic template is selected exactly when the requirement has at most 3
\* capabilities and a priority of at most 5, and the advanced template in every other
\* case; the template the result reports is the one the source was rendered from.
C27_TemplateSelection ==
    \A c \in Rendered :
        LET simple == Len(Req(c).capabilities) <= 3 /\ Req(c).priority <= 5
        IN  /\ adapter_code[c][1].template =
                  IF simple THEN "basic_mcp_adapter" ELSE "advanced_tool_adapter"
            /\ Returned(c) /\ Res(c).created_new =>
                  Res(c).creation_details[1].template_used = adapter_code[c][1].template

\* a requirement with one capability and priority 6 was rendered from the advanced
\* template and the call returned the created adapter
C27_Witness ==
    \E c \in Rendered :
        /\ Len(Req(c).capabilities) <= 3
        /\ Req(c).priority > 5
        /\ adapter_code[c][1].template = "advanced_tool_adapter"
        /\ Returned(c)
        /\ Res(c).created_new

(***************************************************************************)
(* Properties of the discovery history                                     *)
(***************************************************************************)
\* C22: the discovery history is append-only: no step changes or removes a record of
\* the history a system holds in memory, and after any sequence of recorded calls,
\* those of a newly constructed system on the same project root too, the history file
\* still holds every record written to it before.
C22_HistoryAppendOnly ==
    [][ /\ discovery_history' # << >> => StartsWith(discovery_history', discovery_history)
        /\ StartsWith(history_file'.records, history_file.records) ]_vars

\* C23: a failure while persisting the discovery history (creating the results
\* directory, opening or writing the history file) never fails the discover_adapter
\* call: a call that has appended its record returns, with the result it had computed.
C23_PersistFailureContained ==
    \A c \in Callers :
        obs[c].appended > 0 =>
            /\ Returned(c)
            /\ result[c] # None
            /\ discovery_history[Len(discovery_history)].result.found = Res(c).found

(***************************************************************************)
(* Properties of the generated files                                       *)
(***************************************************************************)
\* C25: a generated-file write that fails or is cancelled part-way never leaves a
\* partially written file at the generated path: at every moment every path of
\* generated_dir that exists holds one complete rendered source.
C25_NoPartialFile ==
    \A path \in DOMAIN files :
        /\ files[path] # None
        /\ \E r \in SessionRequirements :
              /\ ~GenerateRaises(r)
              /\ path = AdapterFilename(r)
              /\ files[path] = Some(GenerateAdapterCode(r))

(***************************************************************************)
(* The example of the specification: "CSV Analyzer" and "Data Analyzer"    *)
(***************************************************************************)
\* the calls for "CSV Analyzer" with the tags csv_parsing and statistics on the system
\* whose registry holds the provider "Data Analyzer" and no other
ExampleCalls ==
    { c \in Callers : requirement[c] = Some(ReqCsvAnalyzer)
                      /\ registry = Some(DataAnalyzerRegistry) }

\* the entry list_adapters gives for "Data Analyzer"
DataAnalyzerEntry == ListAdapters(DataAnalyzerRegistry)[1]

\* the name similarity of the example, in 1/60
ExampleNameSim ==
    CalculateTextSimilarity(LowerStr(ReqCsvAnalyzer.name), LowerStr(DataAnalyzerEntry.name))

\* the tag overlap ratio of the example, in 1/60
ExampleTagOverlap ==
    (60 * CapabilityMatches(ReqCsvAnalyzer, DataAnalyzerEntry))
        \div Len(ReqCsvAnalyzer.capabilities)

\* the call of the example synthesises: on a file system that works it returns a
\* created adapter, has written its generated file and has appended the history entry
\* of that result
ExampleSynthesizes(c) ==
    /\ obs[c].stages # << >> => obs[c].stages[2] = "Synthesizing"
    /\ Returned(c) /\ disk = "ok" =>
          /\ Res(c).found /\ Res(c).created_new
          /\ obs[c].wrote = 1
          /\ files[AdapterFilename(ReqCsvAnalyzer)] = adapter_code[c]
          /\ obs[c].appended = 1
          /\ discovery_history[Len(discovery_history)] = DiscoveryRecord(ReqCsvAnalyzer, Res(c))
          /\ Res(c) = CreatedResult(ReqCsvAnalyzer, AdapterFilename(ReqCsvAnalyzer))

Fetched == reply # None /\ reply[1].op = "get_adapter_info"

\* C24: a record written by the scanner or by the synthesiser and then fetched with
\* get_adapter_info by the id the writer reported is found and has the same id,
\* category and capability tags that were written: the fetch by the id of a returned
\* adapter does not raise and gives that id and the capabilities of the result, and
\* for a created adapter the category of its requirement.
C24_FetchedAsWritten ==
    Fetched =>
        /\ reply[1].raised = ""
        /\ reply[1].info # None
        /\ reply[1].info[1].id = reply[1].adapter_id
        /\ \A c \in Callers :
              Returned(c) /\ Res(c).found /\ Res(c).adapter_id = Some(reply[1].adapter_id) =>
                  /\ reply[1].info[1].capabilities = Res(c).capabilities[1]
                  /\ Res(c).created_new => reply[1].info[1].category = Req(c).category

(***************************************************************************)
(* Properties of execute_adapter                                           *)
(***************************************************************************)
\* the execution the registry answered last
Executed == reply # None /\ reply[1].op = "execute_adapter"

\* the record of the executed id has no class
ExecutedFileOnly ==
    /\ DictHas(registry[1].adapters, reply[1].adapter_id)
    /\ DictGet(registry[1].adapters, reply[1].adapter_id).class = None

\* the execution could not succeed: the id is unknown, the record has no class, no
\* instance was cached and the constructor refuses the arguments, the class has no
\* process, or its process raises
ExecutionFails ==
    \/ ~DictHas(registry[1].adapters, reply[1].adapter_id)
    \/ ExecutedFileOnly
    \/ LET adapter_class == DictGet(registry[1].adapters, reply[1].adapter_id).class
       IN  \/ /\ ~DictHas(reply[1].before, reply[1].adapter_id)
              /\ ConstructRaises(adapter_class, reply[1].kwargs)
           \/ ~adapter_class[1].has_process
           \/ ~adapter_class[1].process_ok

\* C28: execute_adapter never raises: for an unknown id, a FileOnly record, a
\* constructor failure, a provider without process or a process call that throws, it
\* returns a result with status "error" that carries the adapter id; a failed execution
\* of a FileOnly or unknown id leaves the instance cache unchanged.
C28_ExecuteNeverRaises ==
    Executed =>
        /\ reply[1].raised = ""
        /\ reply[1].result # None
        /\ reply[1].result[1].adapter_id = reply[1].adapter_id
        /\ reply[1].result[1].status = IF ExecutionFails THEN "error" ELSE "success"
        /\ ~DictHas(registry[1].adapters, reply[1].adapter_id) \/ ExecutedFileOnly
              => adapter_instances = reply[1].before

\* the execution of a FileOnly record has returned an error, with an instance of
\* another adapter in the cache
C28_Witness ==
    /\ Executed
    /\ ExecutedFileOnly
    /\ reply[1].result[1].status = "error"
    /\ adapter_instances # << >>

(***************************************************************************)
(* The global registry: threads call get_global_registry, setup_mcp_adapters*)
(* of the startup script writes its core records into it, and the callers  *)
(* list and search the object they were given                              *)
(***************************************************************************)
\* core_mcps of setup_mcp_adapters
CoreMcps ==
    << [ id |-> Chars("thought_action_recorder"),
        module |-> "mcptool.adapters.thought_action_recorder_mcp",
        class |-> "ThoughtActionRecorderMCP",
        name |-> "U601DU8003U64CDU4F5CU8A18U9304U5668" ],
      [ id |-> Chars("supermemory"),
        module |-> "mcptool.adapters.supermemory_adapter.supermemory_mcp",
        class |-> "SuperMemoryMCP",
        name |-> "SuperMemoryU9069U914DU5668" ] >>

\* the record setup_mcp_adapters writes for a core MCP whose module imports
CoreRecord(mcp_info) ==
    [ name |-> mcp_info.name,
      class |-> Some([ name |-> mcp_info.class ]),
      category |-> "core",
      status |-> "active",
      module_path |-> mcp_info.module ]

\* list_adapters(category) raises KeyError: a record it does not skip lacks a key it
\* reads
ListCategoryRaises(reg, category) ==
    \E i \in 1..Len(reg.adapters) :
        LET adapter_info == reg.adapters[i].info
        IN  IF category # None /\ category[1] # ""
            THEN \/ "category" \notin DOMAIN adapter_info
                 \/ /\ adapter_info.category = category[1]
                    /\ ~ ({ "name", "file_path", "registered_at" } \subseteq DOMAIN adapter_info)
            ELSE ~ ({ "name", "category", "file_path", "registered_at" }
                      \subseteq DOMAIN adapter_info)

\* the files under the adapters root of the process
ProcessTrees == { << CsvFile, NotesFile >> }

\* the categories the callers of the global registry list
ProcessCategories == { None, Some("integration") }

\* the requirements the global registry is searched for
ProcessRequirements == { ReqReuse }

ProcessInit ==
    /\ registry = None
    /\ files = << >>
    /\ discovery_history = << >>
    /\ history_file = [ state |-> "absent", records |-> << >> ]
    /\ disk = "ok"
    /\ pc = [ c \in Callers |-> "idle" ]
    /\ requirement = [ c \in Callers |-> None ]
    /\ adapter_code = [ c \in Callers |-> None ]
    /\ adapter_path = [ c \in Callers |-> None ]
    /\ existing_result = [ c \in Callers |-> None ]
    /\ result = [ c \in Callers |-> None ]
    /\ obs = [ c \in Callers |-> NoObs ]
    /\ \E tree \in ProcessTrees : scan = [ NoScan EXCEPT !.tree = tree ]
    /\ adapter_instances = << >>
    /\ reply = None
    /\ heap = << >>
    /\ global_registry = None
    /\ threads = [ t \in Threads |-> NoThread ]

\* the variables the threads of the process leave alone
idlevars == << registry, scan, adapter_instances, discoveryvars >>

\* get_global_registry: the test _global_registry is None
TestGlobal(t) ==
    /\ threads[t].pc = "start"
    /\ threads' = [ threads EXCEPT ![t].pc = IF global_registry = None THEN "construct"
                                             ELSE "return" ]
    /\ UNCHANGED << heap, global_registry, reply, idlevars >>

\* get_global_registry: UnifiedAdapterRegistry(), the constructor and its scan
ConstructGlobal(t) ==
    /\ threads[t].pc = "construct"
    /\ heap' = Append(heap, NewRegistry(scan.tree))
    /\ threads' = [ threads EXCEPT ![t].pc = "assign", ![t].made = Some(Len(heap) + 1) ]
    /\ UNCHANGED << global_registry, reply, idlevars >>

\* get_global_registry: the assignment to _global_registry
AssignGlobal(t) ==
    /\ threads[t].pc = "assign"
    /\ global_registry' = threads[t].made
    /\ threads' = [ threads EXCEPT ![t].pc = "return" ]
    /\ UNCHANGED << heap, reply, idlevars >>

\* get_global_registry: return _global_registry
ReturnGlobal(t) ==
    /\ threads[t].pc = "return"
    /\ threads' = [ threads EXCEPT ![t].pc = "done", ![t].ref = global_registry ]
    /\ UNCHANGED << heap, global_registry, reply, idlevars >>

\* the registry a thread was given
RegistryOf(t) == heap[threads[t].ref[1]]

RECURSIVE RegisterCoreMcps(_, _, _)
\* the loop of setup_mcp_adapters over core_mcps: the record of each MCP whose module
\* imports is written into registered_adapters, and an import that fails is reported
\* and leaves the registry as it is
RegisterCoreMcps(reg, core_mcps, imported) ==
    IF core_mcps = << >> THEN reg
    ELSE RegisterCoreMcps(IF Head(core_mcps).id \in imported
                          THEN [ reg EXCEPT !.adapters = DictPut(@, Head(core_mcps).id,
                                                                 CoreRecord(Head(core_mcps))) ]
                          ELSE reg,
                          Tail(core_mcps), imported)

\* setup_mcp_adapters on the registry get_global_registry gave the thread
SetupMcpAdapters(t, imported) ==
    /\ threads[t].pc = "done"
    /\ heap' = [ heap EXCEPT ![threads[t].ref[1]] = RegisterCoreMcps(@, CoreMcps, imported) ]
    /\ UNCHANGED << global_registry, threads, reply, idlevars >>

\* a thread lists the adapters of the registry it was given
ListVia(t, category) ==
    /\ threads[t].pc = "done"
    /\ reply' = Some(IF ListCategoryRaises(RegistryOf(t), category)
                     THEN [ op |-> "list_adapters", category |-> category,
                            raised |-> "KeyError", adapters |-> << >> ]
                     ELSE [ op |-> "list_adapters", category |-> category,
                            raised |-> "",
                            adapters |-> ListAdaptersOf(RegistryOf(t), category) ])
    /\ UNCHANGED << heap, global_registry, threads, idlevars >>

\* _search_existing_adapters of a discovery system whose adapter_registry is the
\* registry the thread was given
SearchVia(t, r) ==
    /\ threads[t].pc = "done"
    /\ reply' = Some([ op |-> "search", requirement |-> r,
                       records |-> Len(RegistryOf(t).adapters),
                       scores |-> SearchScores(Some(RegistryOf(t)), r),
                       result |-> SearchExistingAdapters(Some(RegistryOf(t)), r) ])
    /\ UNCHANGED << heap, global_registry, threads, idlevars >>

ProcessNext ==
    \E t \in Threads :
        \/ TestGlobal(t)
        \/ ConstructGlobal(t)
        \/ AssignGlobal(t)
        \/ ReturnGlobal(t)
        \/ \E imported \in SUBSET { CoreMcps[i].id : i \in 1..Len(CoreMcps) } :
              SetupMcpAdapters(t, imported)
        \/ \E category \in ProcessCategories : ListVia(t, category)
        \/ \E r \in ProcessRequirements : SearchVia(t, r)

ProcessSpec == ProcessInit /\ [][ProcessNext]_vars

(***************************************************************************)
(* Properties of the global registry                                       *)
(***************************************************************************)
\* the keys list_adapters and get_adapter_info read of a record
ReadKeys == { "name", "category", "file_path", "registered_at", "module_path" }

\* C29: every record in the registry, however it was registered (class scan,
\* file-name fallback or the direct core registrations of the startup script), has the
\* keys name, category, file_path, registered_at and module_path, so that after any
\* sequence of registrations list_adapters does not raise and the matcher computes a
\* score for every record instead of falling back to not found.
C29_RecordsComplete ==
    /\ \A o \in 1..Len(heap) : \A i \in 1..Len(heap[o].adapters) :
          ReadKeys \subseteq DOMAIN heap[o].adapters[i].info
    /\ reply # None /\ reply[1].op = "list_adapters" => reply[1].raised = ""
    /\ reply # None /\ reply[1].op = "search" /\ reply[1].requirement.capabilities # << >>
          => Len(reply[1].scores) = reply[1].records

\* C30: get_global_registry gives one and the same registry to every caller, also
\* when several threads make the first call concurrently: the constructor and its scan
\* run at most once, and all the threads hold the same object, so that what one
\* registers the others see.
C30_OneGlobalRegistry ==
    /\ Len(heap) <= 1
    /\ \A t, u \in Threads :
          threads[t].ref # None /\ threads[u].ref # None => threads[t].ref = threads[u].ref

=============================================================================
